---- MODULE Spec2Model ----
(***************************************************************************)
(* A model of the reactive scene-graph engine of src/src/engine.hpp: state *)
(* cells, dependency trackers, effects, derived cells, the node tree, the  *)
(* Conditional component, the three tree walkers, Props, and the context   *)
(* lookup of src/FlappyBird.cpp.                                           *)
(*                                                                         *)
(* A node is a number; NULL is the null pointer.  A state cell is a name   *)
(* in the domain of `cell`.  A registered closure is a record whose `kind` *)
(* selects the code it runs and whose other fields are its captures.       *)
(***************************************************************************)
EXTENDS Integers, Sequences, FiniteSets, TLC

\* ------------------------------------------------------------------ bounds
MaxVal == 1
MaxCount == 3
MaxNodes == 5
MaxTreeNodes == 3
MaxChildren == 2
MaxProviders == 2

Vals == 0..MaxVal
NodeIds == 1..MaxNodes

\* ----------------------------------------------------------------- program
NULL == 0
Unbound == "unbound"

VARIABLES
  parent,     \* Node::parent, per node
  children,   \* Node::children, per node
  alive,      \* the nodes that exist (some shared_ptr still owns them)
  hookData,   \* Node::hookData: the four callback lists, per node
  providedContextsMap, \* Node::providedContextsMap, per node
  cell,       \* TypedStateSlot::value, per state cell
  walk,       \* what the host is running: "idle", "update", "render", "event"
  stack,      \* the call stack of the walker: one frame per active call
  call,       \* the host's current or last call into the engine
  trace,      \* observation: the callbacks invoked so far in this walk
  evalSeen,   \* observation: dependency values at an effect's last evaluation
  written     \* observation: cells the host wrote since the last full walk

vars == <<parent, children, alive, hookData, providedContextsMap, cell, walk,
          stack, call, trace, evalSeen, written>>

Range(f) == {f[x] : x \in DOMAIN f}

\* The part of the state that callbacks read and write.
Engine ==
  [parent |-> parent, children |-> children, alive |-> alive,
   hookData |-> hookData, cell |-> cell]

\* The outcome of a call: it returned a value, or it threw.
Returned(v) == [fault |-> "none", value |-> v]
Thrown(what) == [fault |-> what]

\* ------------------------------------------------------------- State<T>
isValid(state) == state # Unbound

\* (mutation: an unbound handle yields a default-constructed T)
getDefault(state, cells) ==
  IF ~isValid(state) THEN Returned(0) ELSE Returned(cells[state])

get(state, cells) ==
  IF ~isValid(state)
    THEN Thrown("Accessing uninitialized state via get()")
    ELSE Returned(cells[state])

\* set() returns nothing: `cells` is the store after the call.
set(state, cells, newVal) ==
  IF ~isValid(state)
    THEN [fault |-> "Accessing uninitialized state via set()", cells |-> cells]
    ELSE [fault |-> "none", cells |-> [cells EXCEPT ![state] = newVal]]

\* getRef() returns a reference to the slot's value: the cell itself.
getRef(state, cells) ==
  IF ~isValid(state)
    THEN Thrown("Accessing uninitialized state via getRef()")
    ELSE Returned(state)

\* ------------------------------------------------- Detail::Dependency<T>
\* How Dependency<T> compares two values of a cell's type T: "value" for
\* strings, arithmetic types and enums, "size" for std::vector, "equality"
\* for another type with operator==, "none" for a type without one.
VectorCells == {"vec"}
EqualityCells == {}
OpaqueCells == {"rect"}

\* (mutation: every type is compared by value)
ComparisonByValue(state) == "value"

Comparison(state) ==
  IF state \in VectorCells THEN "size"
  ELSE IF state \in EqualityCells THEN "equality"
  ELSE IF state \in OpaqueCells THEN "none"
  ELSE "value"

\* (mutation: the comparison is inverted)
hasChangedInverted(dep, cells) ==
  IF ~isValid(dep.state) THEN FALSE
  ELSE IF dep.lastValue = <<>> THEN TRUE
  ELSE cells[dep.state] = dep.lastValue[1]

hasChanged(dep, cells) ==
  IF ~isValid(dep.state) THEN FALSE
  ELSE LET currentValue == cells[dep.state]
       IN IF dep.lastValue = <<>> THEN TRUE
          ELSE CASE Comparison(dep.state) = "value" -> currentValue # dep.lastValue[1]
                 [] Comparison(dep.state) = "size" ->
                      Len(currentValue) # Len(dep.lastValue[1])
                 [] Comparison(dep.state) = "equality" ->
                      ~(currentValue = dep.lastValue[1])
                 [] OTHER -> TRUE

\* (mutation: the snapshot is never refreshed)
updateLastValueStale(dep, cells) == dep

updateLastValue(dep, cells) ==
  IF isValid(dep.state)
    THEN [dep EXCEPT !.lastValue = <<cells[dep.state]>>]
    ELSE [dep EXCEPT !.lastValue = <<>>]

\* --------------------------------------------------------- tree mutation
\* (mutation: mounting a child re-arms the child's effects)
AddChildRearms(s, p, child) ==
  IF child # NULL
    THEN [s EXCEPT !.children[p] = Append(@, child), !.parent[child] = p,
                   !.hookData[child].effects =
                      [k \in 1..Len(@) |-> [@[k] EXCEPT !.isFirstRun = TRUE]]]
    ELSE s

\* (mutation: the parent pointer is set but the child is not appended)
AddChildParentOnly(s, p, child) ==
  IF child # NULL THEN [s EXCEPT !.parent[child] = p] ELSE s

AddChild(s, p, child) ==
  IF child # NULL
    THEN [s EXCEPT !.children[p] = Append(@, child), !.parent[child] = p]
    ELSE s

\* (mutation: the entry is unparented but not erased)
RemoveChildKeepsEntry(s, p, childToRemove) ==
  IF childToRemove = NULL THEN s
  ELSE IF childToRemove \in Range(s.children[p])
    THEN [s EXCEPT !.parent[childToRemove] = NULL]
    ELSE s

\* (mutation: only the first matching entry is erased)
RemoveChildFirstOnly(s, p, childToRemove) ==
  IF childToRemove = NULL THEN s
  ELSE IF childToRemove \in Range(s.children[p])
    THEN LET list == s.children[p]
             k == CHOOSE j \in 1..Len(list) :
                    list[j] = childToRemove /\ \A m \in 1..(j - 1) : list[m] # childToRemove
         IN [s EXCEPT !.children[p] = SubSeq(list, 1, k - 1) \o SubSeq(list, k + 1, Len(list)),
                      !.parent[childToRemove] = NULL]
    ELSE s

RemoveChild(s, p, childToRemove) ==
  IF childToRemove = NULL THEN s
  ELSE IF childToRemove \in Range(s.children[p])
    THEN [s EXCEPT !.children[p] = SelectSeq(@, LAMBDA x : x # childToRemove),
                   !.parent[childToRemove] = NULL]
    ELSE s

SetChildrenKeepsOldParents(s, p, newChildren) ==
  LET kept == SelectSeq(newChildren, LAMBDA x : x # NULL)
  IN [s EXCEPT !.children[p] = kept,
               !.parent = [n \in DOMAIN s.parent |->
                             IF n \in Range(kept) THEN p ELSE s.parent[n]]]

SetChildren(s, p, newChildren) ==
  LET old == Range(s.children[p])
      kept == SelectSeq(newChildren, LAMBDA x : x # NULL)
      unparented == [n \in DOMAIN s.parent |->
                       IF n \in old THEN NULL ELSE s.parent[n]]
  IN [s EXCEPT !.children[p] = kept,
               !.parent = [n \in DOMAIN s.parent |->
                             IF n \in Range(kept) THEN p ELSE unparented[n]]]

\* The hook storage of a node nothing has been registered on.
NoHooks ==
  [updateEffects |-> <<>>, effects |-> <<>>, renderEffects |-> <<>>,
   eventEffects |-> <<>>]

\* createNode(parent): make_shared<Node>(parent) at the free address n.
createNode(s, n, p) ==
  [s EXCEPT !.alive = @ \cup {n}, !.parent[n] = p, !.children[n] = <<>>,
            !.hookData[n] = NoHooks]

\* The last shared_ptr to node n is released.
destroyNode(s, n) ==
  [s EXCEPT !.alive = @ \ {n}, !.parent[n] = NULL, !.children[n] = <<>>]

RECURSIVE destroyAll(_, _)
destroyAll(s, ns) ==
  IF ns = {} THEN s
  ELSE LET n == CHOOSE x \in ns : TRUE
       IN destroyAll(destroyNode(s, n), ns \ {n})

\* The Pipes component's node; cell.activePipes is its State<deque<NodePtr>>.
PipesNode == 1

\* The tree part of the Pipes update callback while the status is Playing:
\* `spawn` tells whether the spawn timer has run out, `offscreen` whether
\* the first pipe (one that was already active) has left the window.
\* Spawning is PipePair(): createNode(), then push_back and AddChild;
\* removal is pop_front and an erase from node_ptr->children that does not
\* touch the pipe's parent pointer, after which the last owner of the pipe
\* (pipeToRemoveNode) goes out of scope.
PipesUpdateTree(s, spawn, offscreen, n) ==
  LET s1 == IF spawn
              THEN LET made == createNode(s, n, NULL)
                       pushed == [made EXCEPT !.cell.activePipes = Append(@, n)]
                   IN AddChild(pushed, PipesNode, n)
              ELSE s
      pipes == s1.cell.activePipes
  IN IF pipes # <<>> /\ offscreen
       THEN LET pipeToRemoveNode == Head(pipes)
                erased == [s1 EXCEPT
                             !.cell.activePipes = Tail(@),
                             !.children[PipesNode] =
                                SelectSeq(@, LAMBDA x : x # pipeToRemoveNode)]
            IN IF \E m \in erased.alive : pipeToRemoveNode \in Range(erased.children[m])
                 THEN erased
                 ELSE destroyNode(erased, pipeToRemoveNode)
       ELSE s1

\* The Pipes effect when it runs with a status other than Playing:
\* pipes.clear() and node_ptr->SetChildren({}) if any pipe is active.
PipesClearTree(s) ==
  LET pipes == s.cell.activePipes
  IN IF pipes # <<>>
       THEN LET cleared == SetChildren([s EXCEPT !.cell.activePipes = <<>>],
                                       PipesNode, <<>>)
                orphans == {n \in Range(pipes) :
                              ~\E m \in cleared.alive : n \in Range(cleared.children[m])}
            IN destroyAll(cleared, orphans)
       ELSE s

\* ---------------------------------------------------------------- context
\* A context key is the type_index of Context<T>; an entry is the std::any
\* holding a T*: its `type` is the pointee type T, its `value` the address.
CtxTypes == {"GameContextData", "Other"}
CtxKeys == {"Context<GameContextData>", "Context<Other>"}
Addresses == {1, 2}
NoEntry == [type |-> "none", value |-> NULL]
NoContexts == [n \in NodeIds |-> [k \in CtxKeys |-> NoEntry]]

\* Node::provideContext<T>(ctxTypeId, value) on node n.
provideContext(map, n, ctxTypeId, T, value) ==
  [map EXCEPT ![n][ctxTypeId] = [type |-> T, value |-> value]]

\* std::any_cast<T*>(it->second), bad_any_cast caught: nullptr.
\* (mutation: the stored pointer is cast without a type check)
anyCastUnchecked(entry, T) == entry.value

anyCast(entry, T) == IF entry.type = T THEN entry.value ELSE NULL

\* Node::getContextValue<T>(ctxTypeId) called on node n; par is the parent
\* pointer of every node.
RECURSIVE getContextValue(_, _, _, _, _)
\* (mutation: only the node's own map is consulted)
getContextValueLocal(par, map, n, ctxTypeId, T) ==
  IF n = NULL THEN NULL
  ELSE IF map[n][ctxTypeId] # NoEntry
         THEN anyCast(map[n][ctxTypeId], T)
         ELSE NULL

getContextValue(par, map, n, ctxTypeId, T) ==
  IF n = NULL THEN NULL
  ELSE IF map[n][ctxTypeId] # NoEntry
         THEN anyCast(map[n][ctxTypeId], T)
         ELSE getContextValue(par, map, par[n], ctxTypeId, T)

\* ------------------------------------------------------------ closures
\* A derived cell's computeFn, reading the cell it was declared over.
\* The compute closures Game hands to node->derived: the four conditions
\* over the status and the score text.
\* (mutation: the score condition is status != MainMenu)
GameComputeOverlap(fn, cells) ==
  CASE fn.compute = "notGameOver" -> cells.status # "GameOver"
    [] fn.compute = "isMainMenu" -> cells.status = "MainMenu"
    [] fn.compute = "isGameOver" -> cells.status = "GameOver"
    [] fn.compute = "isPlaying" -> cells.status # "MainMenu"
    [] fn.compute = "scoreText" -> <<"Score: ", cells.score>>

GameCompute(fn, cells) ==
  CASE fn.compute = "notGameOver" -> cells.status # "GameOver"
    [] fn.compute = "isMainMenu" -> cells.status = "MainMenu"
    [] fn.compute = "isGameOver" -> cells.status = "GameOver"
    [] fn.compute = "isPlaying" -> cells.status = "Playing"
    [] fn.compute = "scoreText" -> <<"Score: ", cells.score>>

computeFn(fn, cells) ==
  IF "compute" \in DOMAIN fn THEN GameCompute(fn, cells)
  ELSE cells[fn.source] + 1

\* The closure Node::derived registers as an effect.
\* (mutation: the recomputed value is not stored)
derivedEffectNoSet(fn, s) == s

derivedEffect(fn, s) ==
  [s EXCEPT !.cell[fn.target] = computeFn(fn, s.cell)]

\* (mutation: the membership scan never finds the child)
ConditionalEffectBlind(fn, s) ==
  IF fn.node \notin s.alive \/ fn.childComponent = NULL THEN s
  ELSE IF s.cell[fn.condition]
         THEN AddChild(s, fn.node, fn.childComponent) ELSE s

\* (mutation: mounting builds the child afresh, with its cells reset)
ConditionalEffectRemount(fn, s) ==
  IF fn.node \notin s.alive \/ fn.childComponent = NULL THEN s
  ELSE LET isCurrentlyChild ==
             \E k \in 1..Len(s.children[fn.node]) :
                s.children[fn.node][k] = fn.childComponent
       IN IF s.cell[fn.condition]
            THEN IF ~isCurrentlyChild
                   THEN [AddChild(s, fn.node, fn.childComponent)
                           EXCEPT !.cell.cnt = 0]
                   ELSE s
            ELSE IF isCurrentlyChild
                   THEN RemoveChild(s, fn.node, fn.childComponent) ELSE s

\* (mutation: unmounting clears the child's parent pointer and leaves the
\* child in the list)
ConditionalEffectUnparents(fn, s) ==
  IF fn.node \notin s.alive \/ fn.childComponent = NULL THEN s
  ELSE LET isCurrentlyChild ==
             \E k \in 1..Len(s.children[fn.node]) :
                s.children[fn.node][k] = fn.childComponent
       IN IF s.cell[fn.condition]
            THEN IF ~isCurrentlyChild
                   THEN AddChild(s, fn.node, fn.childComponent) ELSE s
            ELSE IF isCurrentlyChild
                   THEN [s EXCEPT !.parent[fn.childComponent] = NULL] ELSE s

\* The closure Conditional registers as an effect.
ConditionalEffect(fn, s) ==
  IF fn.node \notin s.alive \/ fn.childComponent = NULL THEN s
  ELSE LET isCurrentlyChild ==
             \E k \in 1..Len(s.children[fn.node]) :
                s.children[fn.node][k] = fn.childComponent
       IN IF s.cell[fn.condition]
            THEN IF ~isCurrentlyChild
                   THEN AddChild(s, fn.node, fn.childComponent) ELSE s
            ELSE IF isCurrentlyChild
                   THEN RemoveChild(s, fn.node, fn.childComponent) ELSE s

\* ------------------------------------------------- the demo's closures
\* Lengths are in units of the distance a pipe travels in one second and
\* times in seconds, rounded to whole numbers.
PIPE_SPAWN_INTERVAL == 2
PIPE_SPEED == 1
\* WINDOW_WIDTH + PIPE_WIDTH / 2, where PipePair is created.
SPAWN_X == 3
\* birdRect.x: a pipe whose xPos is left of it is scored.
BIRD_LEFT == 1
\* -PIPE_WIDTH: a first pipe whose xPos is left of it is removed.
OFF_X == 0
\* The pipe's rectangles and the bird's overlap horizontally.
OverlapsBird(xPos) == xPos = BIRD_LEFT

\* SDL_EVENT_KEY_DOWN with SDL_SCANCODE_SPACE or SDL_SCANCODE_UP, and any
\* other event.
Flap == 1
OtherEvent == 0

\* The addresses PipePair nodes are made at.
MaxPipes == 3
FirstPipe == 14
PipeIds == FirstPipe..(FirstPipe + MaxPipes - 1)
NoPipeData == [xPos |-> 0, scored |-> FALSE]
FreePipe(s) == CHOOSE n \in PipeIds \ s.alive : \A m \in PipeIds \ s.alive : n <= m

\* Game's event handler.
\* (mutation: a flap while Playing returns to the main menu)
GameKeyDownAnyStatus(fn, s, event) ==
  IF event # Flap THEN s
  ELSE IF s.cell.status = "MainMenu"
    THEN [s EXCEPT !.cell.status = "Playing", !.cell.score = 0]
    ELSE [s EXCEPT !.cell.status = "MainMenu", !.cell.score = 0]

GameKeyDown(fn, s, event) ==
  IF event # Flap THEN s
  ELSE IF s.cell.status = "MainMenu"
    THEN [s EXCEPT !.cell.status = "Playing", !.cell.score = 0]
  ELSE IF s.cell.status = "GameOver"
    THEN [s EXCEPT !.cell.status = "MainMenu", !.cell.score = 0]
  ELSE s

\* The bird's vertical scale, in whole numbers: the window's height, the
\* velocity a second of gravity adds, the velocity a flap sets, and the
\* bound of the rotation.  BIRD_HEIGHT / 2 rounds to 0.
WINDOW_HEIGHT == 2
GRAVITY == 1
FLAP_VELOCITY == 0 - 1
MAX_ROTATION == 1
INITIAL_Y == WINDOW_HEIGHT \div 2

\* Bird's event handler.
\* (mutation: the handler does not look at the status)
BirdKeyDownAnyStatus(fn, s, event) ==
  IF event = Flap THEN [s EXCEPT !.cell.yVel = FLAP_VELOCITY] ELSE s

BirdKeyDown(fn, s, event) ==
  IF event = Flap /\ s.cell.status = "Playing"
    THEN [s EXCEPT !.cell.yVel = FLAP_VELOCITY]
    ELSE s

\* Bird's effect, over gameStatus.
BirdEffectFn(fn, s) ==
  IF s.cell.status \in {"MainMenu", "GameOver"}
    THEN [s EXCEPT !.cell.yPos = INITIAL_Y, !.cell.yVel = 0,
                   !.cell.rotation = 0]
    ELSE s

\* Bird's update callback.
BirdUpdateFn(fn, s, in) ==
  IF s.cell.status = "Playing"
    THEN LET yVel == s.cell.yVel + GRAVITY * in.dt
             yPos == s.cell.yPos + yVel * in.dt
             rotation == IF yVel > MAX_ROTATION THEN MAX_ROTATION
                         ELSE IF yVel < 0 - MAX_ROTATION THEN 0 - MAX_ROTATION
                         ELSE yVel
         IN [s EXCEPT !.cell.yPos = yPos, !.cell.yVel = yVel,
                      !.cell.rotation = rotation,
                      !.cell.status = IF yPos > WINDOW_HEIGHT \/ yPos < 0
                                        THEN "GameOver" ELSE @]
    ELSE s

\* The Pipes effect: spawnTimer is the copy of the local the effect's
\* closure captured by value.
PipesEffectFn(fn, s) ==
  IF s.cell.status # "Playing"
    THEN LET cleared == PipesClearTree(s)
         IN [cleared EXCEPT
               !.cell.pipeData = [p \in PipeIds |->
                                    IF p \in cleared.alive THEN @[p] ELSE NoPipeData],
               !.hookData[PipesNode].effects[1].effectFn.spawnTimer =
                   PIPE_SPAWN_INTERVAL]
    ELSE s

\* The Pipes update callback: spawnTimer is the copy of the local the
\* update closure captured by value; in.dt is the frame time and in.hit
\* tells whether a pipe that overlaps the bird horizontally has its gap
\* away from the bird.
PipesUpdateFn(fn, s, in) ==
  IF s.cell.status # "Playing" THEN s
  ELSE
    LET counted == fn.spawnTimer - in.dt
        spawn == counted <= 0
        newPipe == IF spawn THEN FreePipe(s) ELSE NULL
        pipes == IF spawn THEN Append(s.cell.activePipes, newPipe)
                          ELSE s.cell.activePipes
        before == [p \in PipeIds |->
                     IF p = newPipe THEN [xPos |-> SPAWN_X, scored |-> FALSE]
                                    ELSE s.cell.pipeData[p]]
        moved(p) == before[p].xPos - PIPE_SPEED * in.dt
        collided == \E k \in 1..Len(pipes) : OverlapsBird(moved(pipes[k])) /\ in.hit
        passed == {k \in 1..Len(pipes) :
                     ~before[pipes[k]].scored /\ moved(pipes[k]) < BIRD_LEFT}
        after == [p \in PipeIds |->
                    IF p \in Range(pipes)
                      THEN [xPos |-> moved(p),
                            scored |-> before[p].scored \/ moved(p) < BIRD_LEFT]
                      ELSE before[p]]
        offscreen == pipes # <<>> /\ after[Head(pipes)].xPos < OFF_X
        s1 == [s EXCEPT
                 !.hookData[PipesNode].updateEffects[1].spawnTimer =
                     IF spawn THEN PIPE_SPAWN_INTERVAL ELSE counted,
                 !.cell.pipeData = after,
                 !.cell.status = IF collided THEN "GameOver" ELSE @,
                 !.cell.score = @ + Cardinality(passed)]
        s2 == PipesUpdateTree(s1, spawn, offscreen, newPipe)
    IN [s2 EXCEPT !.cell.pipeData = [p \in PipeIds |->
                                       IF p \in s2.alive THEN @[p] ELSE NoPipeData]]

\* _effectFn(): the effect closures of the components in use.  `in` is the
\* value a closure computes from data outside the model.
CallEffect(fn, s, in) ==
  CASE fn.kind = "derived" -> derivedEffect(fn, s)
    [] fn.kind = "Conditional" -> ConditionalEffect(fn, s)
    [] fn.kind = "observe" -> [s EXCEPT !.cell[fn.target] = s.cell[fn.source]]
    [] fn.kind = "write" -> [s EXCEPT !.cell[fn.target] = in]
    [] fn.kind = "increment" -> [s EXCEPT !.cell[fn.target] = @ + 1]
    [] fn.kind = "PipesEffect" -> PipesEffectFn(fn, s)
    [] fn.kind = "BirdEffect" -> BirdEffectFn(fn, s)
    [] OTHER -> s

\* A closure whose body is `if (condition.get()) state.get();` raises what
\* get() raises; the other closures in use raise nothing.
Raises(fn, s) ==
  /\ fn.kind = "readIf"
  /\ s.cell[fn.condition]
  /\ get(fn.state, s.cell).fault # "none"

RaisedBy(fn, s) == get(fn.state, s.cell).fault

\* fn(dt): the update closures of the components in use.
CallUpdate(fn, s, in) ==
  CASE fn.kind = "write" -> [s EXCEPT !.cell[fn.target] = in]
    [] fn.kind = "increment" -> [s EXCEPT !.cell[fn.target] = @ + 1]
    [] fn.kind = "PipesUpdate" -> PipesUpdateFn(fn, s, in)
    [] fn.kind = "BirdUpdate" -> BirdUpdateFn(fn, s, in)
    [] OTHER -> s

\* fn(renderer): the render closures draw and change nothing.
CallRender(fn, s) == s

\* fn(event): the event closures of the components in use.
CallEvent(fn, s, event) ==
  CASE fn.kind = "store" -> [s EXCEPT !.cell[fn.target] = event]
    [] fn.kind = "GameKeyDown" -> GameKeyDown(fn, s, event)
    [] fn.kind = "BirdKeyDown" -> BirdKeyDown(fn, s, event)
    [] OTHER -> s

\* ---------------------------------------------------------------- Prop<T>
\* A Prop<T> is a variant: a literal T, a State<T>, or a std::function<T()>.
\* A function is a closure record; [kind |-> "empty"] is the empty
\* std::function.
Literal(v) == [variant |-> "literal", value |-> v]
StateProp(state) == [variant |-> "state", state |-> state]
FunctionProp(fn) == [variant |-> "function", fn |-> fn]
EmptyFunction == [kind |-> "empty"]

\* (mutation: an unusable Prop yields a default-constructed T)
valOrDefault(prop, cells) ==
  CASE prop.variant = "literal" -> Returned(prop.value)
    [] prop.variant = "state" ->
         IF isValid(prop.state) THEN get(prop.state, cells) ELSE Returned(0)
    [] prop.variant = "function" ->
         IF prop.fn # EmptyFunction
           THEN Returned(computeFn(prop.fn, cells)) ELSE Returned(0)

val(prop, cells) ==
  CASE prop.variant = "literal" -> Returned(prop.value)
    [] prop.variant = "state" ->
         IF isValid(prop.state)
           THEN get(prop.state, cells)
           ELSE Thrown("Invalid Prop<T> state or uninitialized provider")
    [] prop.variant = "function" ->
         IF prop.fn # EmptyFunction
           THEN Returned(computeFn(prop.fn, cells))
           ELSE Thrown("Invalid Prop<T> state or uninitialized provider")

\* The values a closure may be handed from outside the model.
Inputs(fn) ==
  CASE fn.kind = "write" -> Vals
    [] fn.kind = "PipesUpdate" ->
         {[dt |-> call.dt, hit |-> h] :
            h \in IF /\ cell.status = "Playing"
                     /\ \/ \E p \in Range(cell.activePipes) :
                             OverlapsBird(cell.pipeData[p].xPos - PIPE_SPEED * call.dt)
                        \/ /\ fn.spawnTimer - call.dt <= 0
                           /\ OverlapsBird(SPAWN_X - PIPE_SPEED * call.dt)
                    THEN BOOLEAN ELSE {FALSE}}
    [] fn.kind = "BirdUpdate" -> {[dt |-> call.dt]}
    [] OTHER -> {0}

\* The cells a closure may write.
Writes(fn) ==
  IF fn.kind \in {"derived", "observe", "write", "increment", "store"}
    THEN {fn.target} ELSE {}

\* ------------------------------------------------------------ EffectHook
\* (mutation: the first-run flag is not consulted)
dependenciesChangedNoFirst(eh, cells) ==
  \E k \in 1..Len(eh.dependencies) : hasChanged(eh.dependencies[k], cells)

dependenciesChanged(eh, cells) ==
  IF eh.isFirstRun THEN TRUE
  ELSE \E k \in 1..Len(eh.dependencies) : hasChanged(eh.dependencies[k], cells)

\* What runIfChanged does to the hook after _effectFn() has returned.
\* (mutation: the first-run flag is left set)
afterRunKeepsFirst(eh, cells) ==
  [eh EXCEPT !.dependencies =
               [k \in 1..Len(eh.dependencies) |->
                  updateLastValue(eh.dependencies[k], cells)]]

\* (mutation: only the trackers the loop examined before its break are
\* refreshed)
afterRunExaminedOnly(eh, cells) ==
  LET examined(k) ==
        /\ ~eh.isFirstRun
        /\ \A j \in 1..(k - 1) : ~hasChanged(eh.dependencies[j], cells)
  IN [eh EXCEPT !.dependencies =
                  [k \in 1..Len(eh.dependencies) |->
                     IF examined(k)
                       THEN updateLastValue(eh.dependencies[k], cells)
                       ELSE eh.dependencies[k]],
                !.isFirstRun = FALSE]

afterRun(eh, cells) ==
  [eh EXCEPT !.dependencies =
               [k \in 1..Len(eh.dependencies) |->
                  updateLastValue(eh.dependencies[k], cells)],
             !.isFirstRun = FALSE]

\* (mutation: the snapshots are refreshed whether or not the action ran)
runIfChangedAlwaysRefresh(s, n, i, in) ==
  LET eh == s.hookData[n].effects[i]
      s1 == IF dependenciesChanged(eh, s.cell)
              THEN CallEffect(eh.effectFn, s, in) ELSE s
  IN [s1 EXCEPT !.hookData[n].effects[i] =
        afterRun(s1.hookData[n].effects[i], s1.cell)]

\* (mutation: the snapshots are taken before the action is called)
runIfChangedSnapshotFirst(s, n, i, in) ==
  LET eh == s.hookData[n].effects[i]
  IN IF dependenciesChanged(eh, s.cell)
       THEN LET s1 == CallEffect(eh.effectFn, s, in)
            IN [s1 EXCEPT !.hookData[n].effects[i] = afterRun(eh, s.cell)]
       ELSE s

runIfChanged(s, n, i, in) ==
  LET eh == s.hookData[n].effects[i]
  IN IF dependenciesChanged(eh, s.cell)
       THEN LET s1 == CallEffect(eh.effectFn, s, in)
            IN [s1 EXCEPT !.hookData[n].effects[i] =
                  afterRun(s1.hookData[n].effects[i], s1.cell)]
       ELSE s

\* A dependency argument of Node::effect: a State<T>, a Prop<T>, or a value
\* of another type.
StateArg(state) == [arg |-> "State", state |-> state]
PropArg(prop) == [arg |-> "Prop", prop |-> prop]
OtherArg == [arg |-> "other"]

\* addDependenciesToEffectHook(eh, deps...): the trackers pushed, in order.
\* (mutation: a function Prop is tracked through the cell it reads)
RECURSIVE addDependenciesToEffectHook(_)
addDependenciesTrackFunctions(args) ==
  IF args = <<>> THEN <<>>
  ELSE LET first == Head(args)
           pushed ==
             IF first.arg = "State"
               THEN <<[state |-> first.state, lastValue |-> <<>>]>>
             ELSE IF first.arg = "Prop" /\ first.prop.variant = "state"
               THEN <<[state |-> first.prop.state, lastValue |-> <<>>]>>
             ELSE IF first.arg = "Prop" /\ first.prop.variant = "function"
               THEN <<[state |-> first.prop.fn.source, lastValue |-> <<>>]>>
             ELSE <<>>
       IN pushed \o addDependenciesToEffectHook(Tail(args))

addDependenciesToEffectHook(args) ==
  IF args = <<>> THEN <<>>
  ELSE LET first == Head(args)
           pushed ==
             IF first.arg = "State"
               THEN <<[state |-> first.state, lastValue |-> <<>>]>>
             ELSE IF first.arg = "Prop" /\ first.prop.variant = "state"
               THEN <<[state |-> first.prop.state, lastValue |-> <<>>]>>
             ELSE <<>>
       IN pushed \o addDependenciesToEffectHook(Tail(args))

\* Node::effect(effectFn, deps...) over dependency arguments of any kind.
effectOver(effectFn, args) ==
  [effectFn |-> effectFn,
   dependencies |-> addDependenciesToEffectHook(args),
   isFirstRun |-> TRUE]

\* Node::effect(effectFn, deps...) when every argument is a State<T>.
effect(effectFn, deps) ==
  effectOver(effectFn, [k \in 1..Len(deps) |-> StateArg(deps[k])])

\* Node::derived: the value the new cell is seeded with, and its effect.
\* (mutation: the cell is seeded with a default instead of computeFn())
derivedSeedDefault(fn, cells) == 0

derivedSeed(fn, cells) == computeFn(fn, cells)

derived(target, source) ==
  effect([kind |-> "derived", target |-> target, source |-> source], <<source>>)

\* Conditional(condition, childComponent) on wrapper node `node`.
Conditional(node, condition, childComponent) ==
  effect([kind |-> "Conditional", node |-> node, condition |-> condition,
          childComponent |-> childComponent], <<condition>>)

\* ------------------------------------- updateTree, renderTree, eventTree
\* A frame is one active call of a walker on a node: `phase` is the loop it
\* is in ("update": updateEffects, "effect": effects, "render":
\* renderEffects, "event": eventEffects, "children") and `i` the position of
\* that loop's iterator.
\* (mutation: the walker of the revision without an effects loop)
NormNoEffects(f, s) ==
  LET hd == s.hookData[f.node]
  IN IF \/ f.phase = "update" /\ f.i > Len(hd.updateEffects)
        \/ f.phase = "render" /\ f.i > Len(hd.renderEffects)
        \/ f.phase = "event" /\ f.i > Len(hd.eventEffects)
       THEN [f EXCEPT !.phase = "children", !.i = 1] ELSE f

Norm(f, s) ==
  LET hd == s.hookData[f.node]
      f1 == IF f.phase = "update" /\ f.i > Len(hd.updateEffects)
              THEN [f EXCEPT !.phase = "effect", !.i = 1] ELSE f
  IN IF \/ f1.phase = "effect" /\ f1.i > Len(hd.effects)
        \/ f1.phase = "render" /\ f1.i > Len(hd.renderEffects)
        \/ f1.phase = "event" /\ f1.i > Len(hd.eventEffects)
       THEN [f1 EXCEPT !.phase = "children", !.i = 1] ELSE f1

\* The frame of a call walker(n): kind is "update", "render" or "event",
\* and the frame's phase is the loop of that walker the call is in.
\* (mutation: every walker runs the loops of updateTree)
EnterAsUpdate(kind, n, s) == Norm([node |-> n, phase |-> "update", i |-> 1], s)

EnterAs(kind, n, s) == Norm([node |-> n, phase |-> kind, i |-> 1], s)

Enter(n, s) == EnterAs("update", n, s)

\* A null SDL_Event*.
NoEvent == 0 - 1

\* The guard a walker opens with: `if (!node) return;` in updateTree and
\* renderTree, `if (!node || !event) return;` in eventTree.
\* (mutation: eventTree does not look at the event pointer)
StartsOnNullEvent(kind, node, event) == node # NULL

Starts(kind, node, event) ==
  /\ node # NULL
  /\ kind = "event" => event # NoEvent

\* for (auto& child : node->children): the child the iterator is at.
\* (mutation: the list is iterated from its end)
ChildAtReversed(s, n, i) == s.children[n][Len(s.children[n]) + 1 - i]

ChildAt(s, n, i) == s.children[n][i]

\* An exception leaving a callback: no walker has a try block, so every
\* frame of the recursion is left; `resumed` is the stack the walk would
\* have gone on with had the callback returned.
\* (mutation: the walker swallows the exception and goes on)
UnwindResumes(stk, resumed) == resumed

Unwind(stk, resumed) == <<>>

Top == stack[Len(stack)]
SetTop(f) == [stack EXCEPT ![Len(stack)] = f]
Pop == SubSeq(stack, 1, Len(stack) - 1)

\* The values of an effect's dependencies, as its trackers read them.
DepValues(eh, cells) ==
  [k \in 1..Len(eh.dependencies) |->
     IF isValid(eh.dependencies[k].state)
       THEN <<cells[eh.dependencies[k].state]>> ELSE <<>>]

Install(s) ==
  /\ parent' = s.parent
  /\ children' = s.children
  /\ alive' = s.alive
  /\ hookData' = s.hookData
  /\ cell' = s.cell

\* ------------------------------------------------------ the bench program
\* A tree built from the engine's primitives: Root -> A -> B, and under
\* Root a Conditional wrapper W whose child component is K.
\*   Root  update callback: writes a computed value to c;
\*         derived cell dRoot over c.
\*   A     derived cell dA over c; an effect over c that copies c into
\*         seen; an effect over c that writes a computed value to c.
\*   B     an update callback; an effect without dependencies; derived
\*         cell d2 over c2; an effect over c2 and cond.
\*   W     Conditional(cond, K).
\*   K     update callback: increments its cell cnt.
\* Root, A and K draw; Root's event callback stores the event's key in c2,
\* those of B and K ignore the event.
\* The host writes c2 and cond between passes.
NoCall == [op |-> "none"]
Root == 1
A == 2
B == 3
W == 4
K == 5
BenchNodes == {Root, A, B, W, K}

BenchHooks ==
  [n \in NodeIds |->
     CASE n = Root ->
            [updateEffects |-> <<[kind |-> "write", target |-> "c"]>>,
             effects |-> <<derived("dRoot", "c")>>,
             renderEffects |-> <<[kind |-> "draw"]>>,
             eventEffects |-> <<[kind |-> "store", target |-> "c2"]>>]
       [] n = A ->
            [updateEffects |-> <<>>,
             effects |-> <<derived("dA", "c"),
                           effect([kind |-> "observe", target |-> "seen",
                                   source |-> "c"], <<"c">>),
                           effect([kind |-> "write", target |-> "c"], <<"c">>)>>,
             renderEffects |-> <<[kind |-> "draw"], [kind |-> "draw"]>>,
             eventEffects |-> <<>>]
       [] n = B ->
            [updateEffects |-> <<[kind |-> "noop"]>>,
             effects |-> <<effect([kind |-> "noop"], <<>>),
                           derived("d2", "c2"),
                           effect([kind |-> "noop"], <<"c2", "cond">>)>>,
             renderEffects |-> <<>>,
             eventEffects |-> <<[kind |-> "noop"]>>]
       [] n = W ->
            [updateEffects |-> <<>>,
             effects |-> <<Conditional(W, "cond", K)>>,
             renderEffects |-> <<>>,
             eventEffects |-> <<>>]
       [] n = K ->
            [updateEffects |-> <<[kind |-> "increment", target |-> "cnt"]>>,
             effects |-> <<>>,
             renderEffects |-> <<[kind |-> "draw"]>>,
             eventEffects |-> <<[kind |-> "noop"]>>]
       [] OTHER -> NoHooks]

BenchCells(v0, w0, b0) ==
  LET seed == [c |-> v0, c2 |-> w0, cond |-> b0, seen |-> 0, cnt |-> 0]
  IN [c |-> v0, c2 |-> w0, cond |-> b0, seen |-> 0, cnt |-> 0,
      dRoot |-> derivedSeed([source |-> "c"], seed),
      dA |-> derivedSeed([source |-> "c"], seed),
      d2 |-> derivedSeed([source |-> "c2"], seed)]

Init ==
  /\ alive = BenchNodes
  /\ parent = [n \in NodeIds |-> CASE n = A -> Root [] n = B -> A
                                   [] n = W -> Root [] OTHER -> NULL]
  /\ children = [n \in NodeIds |-> CASE n = Root -> <<A, W>> [] n = A -> <<B>>
                                     [] OTHER -> <<>>]
  /\ hookData = BenchHooks
  /\ providedContextsMap = NoContexts
  /\ call = NoCall
  /\ \E v0 \in Vals, w0 \in Vals, b0 \in BOOLEAN : cell = BenchCells(v0, w0, b0)
  /\ walk = "idle"
  /\ stack = <<>>
  /\ trace = <<>>
  /\ evalSeen = [n \in NodeIds |-> [k \in 1..Len(BenchHooks[n].effects) |-> <<>>]]
  /\ written = {}

\* What no walker step changes.
Fixed == <<providedContextsMap, call>>

\* The host writes a state cell between walks (an input handler, a test).
HostSet ==
  /\ walk = "idle"
  /\ \/ \E v \in Vals : cell' = [cell EXCEPT !.c2 = v] /\ written' = written \cup {"c2"}
     \/ \E b \in BOOLEAN : cell' = [cell EXCEPT !.cond = b] /\ written' = written \cup {"cond"}
  /\ call' = NoCall
  /\ UNCHANGED <<parent, children, alive, hookData, providedContextsMap, walk,
                 stack, trace, evalSeen>>

\* The handles and Props the host holds besides the tree.
HostHandles == {Unbound, "c2"}
HostProps ==
  {Literal(1), StateProp("c2"), StateProp(Unbound),
   FunctionProp([kind |-> "compute", source |-> "c2"]),
   FunctionProp(EmptyFunction)}

\* The host calls get(), set(v) or getRef() on a handle, or val() on a
\* Prop, and catches what it throws.
HostAccess ==
  /\ walk = "idle"
  /\ \/ \E state \in HostHandles :
          /\ \/ call' = [op |-> "get", state |-> state, result |-> get(state, cell)]
             \/ call' = [op |-> "getRef", state |-> state,
                         result |-> getRef(state, cell)]
          /\ UNCHANGED <<cell, written>>
     \/ \E state \in HostHandles, v \in Vals :
          LET r == set(state, cell, v)
          IN /\ call' = [op |-> "set", state |-> state,
                         result |-> [fault |-> r.fault]]
             /\ cell' = r.cells
             /\ written' = IF r.fault = "none" THEN written \cup {state} ELSE written
     \/ \E prop \in HostProps :
          /\ call' = [op |-> "val", prop |-> prop, result |-> val(prop, cell)]
          /\ UNCHANGED <<cell, written>>
  /\ UNCHANGED <<parent, children, alive, hookData, providedContextsMap, walk,
                 stack, trace, evalSeen>>

\* The host calls updateTree(root, dt).
HostUpdate ==
  /\ walk = "idle"
  /\ cell.cnt < MaxCount
  /\ walk' = "update"
  /\ call' = [op |-> "updateTree"]
  /\ stack' = <<Enter(Root, Engine)>>
  /\ trace' = <<>>
  /\ UNCHANGED <<parent, children, alive, hookData, providedContextsMap, cell,
                 evalSeen, written>>

\* The host calls renderTree(root, renderer).
HostRender ==
  /\ walk = "idle"
  /\ walk' = "render"
  /\ call' = [op |-> "renderTree"]
  /\ stack' = <<EnterAs("render", Root, Engine)>>
  /\ trace' = <<>>
  /\ UNCHANGED <<parent, children, alive, hookData, providedContextsMap, cell,
                 evalSeen, written>>

\* The host calls eventTree(root, &event) with an event it polled.
HostEvent ==
  /\ walk = "idle"
  /\ \E event \in Vals :
       /\ walk' = "event"
       /\ call' = [op |-> "eventTree", event |-> event]
       /\ stack' = <<EnterAs("event", Root, Engine)>>
       /\ trace' = <<>>
  /\ UNCHANGED <<parent, children, alive, hookData, providedContextsMap, cell,
                 evalSeen, written>>

\* for (auto& fn : node->hookData.updateEffects) fn(dt);
UpdateCallback ==
  /\ walk # "idle" /\ stack # <<>> /\ Top.phase = "update"
  /\ \E in \in Inputs(hookData[Top.node].updateEffects[Top.i]) :
       LET n == Top.node
           i == Top.i
           fn == hookData[n].updateEffects[i]
           threw == Raises(fn, Engine)
           s1 == IF threw THEN Engine ELSE CallUpdate(fn, Engine, in)
           resumed == SetTop(Norm([Top EXCEPT !.i = i + 1], s1))
       IN /\ Install(s1)
          /\ stack' = IF threw THEN Unwind(stack, resumed) ELSE resumed
          /\ call' = IF threw THEN [fault |-> RaisedBy(fn, Engine)] @@ call
                              ELSE call
          /\ trace' = Append(trace, [kind |-> "update", node |-> n, idx |-> i,
                                     arg |-> in, ran |-> TRUE, first |-> FALSE])
  /\ UNCHANGED <<walk, evalSeen, written, providedContextsMap>>

\* for (auto& effectHook : node->hookData.effects) effectHook.runIfChanged();
EvalEffect ==
  /\ walk # "idle" /\ stack # <<>> /\ Top.phase = "effect"
  /\ \E in \in Inputs(hookData[Top.node].effects[Top.i].effectFn) :
       LET n == Top.node
           i == Top.i
           eh == hookData[n].effects[i]
           threw == dependenciesChanged(eh, cell) /\ Raises(eh.effectFn, Engine)
           s1 == IF threw THEN Engine ELSE runIfChanged(Engine, n, i, in)
           resumed == SetTop(Norm([Top EXCEPT !.i = i + 1], s1))
       IN /\ Install(s1)
          /\ stack' = IF threw THEN Unwind(stack, resumed) ELSE resumed
          /\ call' = IF threw THEN [fault |-> RaisedBy(eh.effectFn, Engine)] @@ call
                              ELSE call
          /\ trace' = Append(trace, [kind |-> "effect", node |-> n, idx |-> i,
                                     arg |-> IF dependenciesChanged(eh, cell)
                                               THEN in ELSE 0,
                                     ran |-> dependenciesChanged(eh, cell),
                                     first |-> eh.isFirstRun])
          /\ evalSeen' = [evalSeen EXCEPT ![n][i] = <<DepValues(eh, cell)>>]
  /\ UNCHANGED <<walk, written, providedContextsMap>>

\* for (auto& fn : node->hookData.renderEffects) fn(renderer);
RenderCallback ==
  /\ walk # "idle" /\ stack # <<>> /\ Top.phase = "render"
  /\ LET n == Top.node
         i == Top.i
         fn == hookData[n].renderEffects[i]
         threw == Raises(fn, Engine)
         s1 == IF threw THEN Engine ELSE CallRender(fn, Engine)
         resumed == SetTop(Norm([Top EXCEPT !.i = i + 1], s1))
     IN /\ Install(s1)
        /\ stack' = IF threw THEN Unwind(stack, resumed) ELSE resumed
        /\ call' = IF threw THEN [fault |-> RaisedBy(fn, Engine)] @@ call
                            ELSE call
        /\ trace' = Append(trace, [kind |-> "render", node |-> n, idx |-> i,
                                   arg |-> 0, ran |-> TRUE, first |-> FALSE])
  /\ UNCHANGED <<walk, evalSeen, written, providedContextsMap>>

\* for (auto& fn : node->hookData.eventEffects) fn(event);
EventCallback ==
  /\ walk # "idle" /\ stack # <<>> /\ Top.phase = "event"
  /\ LET n == Top.node
         i == Top.i
         fn == hookData[n].eventEffects[i]
         threw == Raises(fn, Engine)
         s1 == IF threw THEN Engine ELSE CallEvent(fn, Engine, call.event)
         resumed == SetTop(Norm([Top EXCEPT !.i = i + 1], s1))
     IN /\ Install(s1)
        /\ stack' = IF threw THEN Unwind(stack, resumed) ELSE resumed
        /\ call' = IF threw THEN [fault |-> RaisedBy(fn, Engine)] @@ call
                            ELSE call
        /\ trace' = Append(trace, [kind |-> "event", node |-> n, idx |-> i,
                                   arg |-> 0, ran |-> TRUE, first |-> FALSE])
        /\ written' = IF threw THEN written ELSE written \cup Writes(fn)
  /\ UNCHANGED <<walk, evalSeen, providedContextsMap>>

\* for (auto& child : node->children) walker(child, ...);
Descend ==
  /\ walk # "idle" /\ stack # <<>> /\ Top.phase = "children"
  /\ Top.i <= Len(children[Top.node])
  /\ LET child == ChildAt(Engine, Top.node, Top.i)
     IN stack' = IF child = NULL
                   THEN SetTop([Top EXCEPT !.i = @ + 1])
                   ELSE Append(SetTop([Top EXCEPT !.i = @ + 1]),
                               EnterAs(walk, child, Engine))
  /\ UNCHANGED <<parent, children, alive, hookData, cell, walk, trace, evalSeen, written>>
  /\ UNCHANGED Fixed

\* The children loop ends and the call returns to its caller.
Return ==
  /\ walk # "idle" /\ stack # <<>> /\ Top.phase = "children"
  /\ Top.i > Len(children[Top.node])
  /\ stack' = Pop
  /\ UNCHANGED <<parent, children, alive, hookData, cell, walk, trace, evalSeen, written>>
  /\ UNCHANGED Fixed

\* The walker has returned to the host.
Finish ==
  /\ walk # "idle" /\ stack = <<>>
  /\ walk' = "idle"
  /\ call' = NoCall
  /\ trace' = <<>>
  /\ written' = IF walk = "update" THEN {} ELSE written
  /\ UNCHANGED <<parent, children, alive, hookData, providedContextsMap, cell,
                 stack, evalSeen>>

Next ==
  \/ HostSet
  \/ HostAccess
  \/ HostUpdate
  \/ HostRender
  \/ HostEvent
  \/ UpdateCallback
  \/ EvalEffect
  \/ RenderCallback
  \/ EventCallback
  \/ Descend
  \/ Return
  \/ Finish

Spec == Init /\ [][Next]_vars

TypeOK ==
  /\ alive \subseteq NodeIds
  /\ walk \in {"idle", "update", "render", "event"}
  /\ \A n \in NodeIds : parent[n] \in NodeIds \cup {NULL}

\* ------------------------------------------------------------ observations
\* This step is one runIfChanged call on effect i of node n.
Evaluates(n, i) ==
  /\ Len(trace') = Len(trace) + 1
  /\ trace'[Len(trace')].kind = "effect"
  /\ trace'[Len(trace')].node = n
  /\ trace'[Len(trace')].idx = i

\* ... and the call executed the action.
Ran == trace'[Len(trace')].ran

NeverEvaluated(n, i) == evalSeen[n][i] = <<>>
\* The value dependency k of effect i of node n had at its last evaluation.
SeenAt(n, i, k) == evalSeen[n][i][1][k][1]

PassDone == walk = "update" /\ stack = <<>>

EventsOf(n, upTo) == {j \in 1..upTo : trace[j].node = n}
HooksOf(n) == Len(hookData[n].updateEffects) + Len(hookData[n].effects)

RECURSIVE Ancestors(_)
Ancestors(n) ==
  IF parent[n] = NULL THEN {} ELSE {parent[n]} \cup Ancestors(parent[n])

IsChildOf(c, p) == \E k \in 1..Len(children[p]) : children[p][k] = c

\* ------------------------------------------------------------------ claims

\* C1: an effect with the single dependency c (effect 2 of A, whose action
\* copies c into seen) executes its action at a runIfChanged call exactly
\* when it is its first call or c differs from the value c had at the
\* previous call: repeated calls without a mutation run it once, a change to
\* another value runs it once more, a write of the same value does not.
C1_DependencyGating ==
  [][Evaluates(A, 2) =>
       /\ Ran <=> (NeverEvaluated(A, 2) \/ cell.c # SeenAt(A, 2, 1))
       /\ Ran => cell'.seen = cell.c
       /\ ~Ran => cell'.seen = cell.seen]_vars

C1_Witness ==
  \E j \in 1..Len(trace) :
     /\ trace[j].kind = "effect" /\ trace[j].node = A /\ trace[j].idx = 2
     /\ ~trace[j].first /\ trace[j].ran

\* C2: the first runIfChanged call of any effect, with zero, one or two
\* dependencies and whatever their values, executes the action.
C2_FirstRun ==
  [][\A n \in BenchNodes : \A i \in 1..Len(hookData[n].effects) :
       (Evaluates(n, i) /\ NeverEvaluated(n, i)) => Ran]_vars

C2_Witness ==
  /\ \E j \in 1..Len(trace) :
       /\ trace[j].kind = "effect" /\ trace[j].node = B /\ trace[j].idx = 1
       /\ trace[j].ran
  /\ \E j \in 1..Len(trace) :
       /\ trace[j].kind = "effect" /\ trace[j].node = B /\ trace[j].idx = 3
       /\ trace[j].ran /\ trace[j].first

\* C3: within one updateTree pass the callbacks of a node are invoked as
\* its update callbacks in registration order, then its effects in
\* registration order; and when any callback or effect of a node of its
\* subtree is invoked, all of these have already been invoked.
C3_NodeBeforeChildren ==
  walk = "update" => \A j \in 1..Len(trace) :
     LET n == trace[j].node
         k == Cardinality(EventsOf(n, j))
         nUpd == Len(hookData[n].updateEffects)
     IN /\ trace[j].kind = (IF k <= nUpd THEN "update" ELSE "effect")
        /\ trace[j].idx = (IF k <= nUpd THEN k ELSE k - nUpd)
        /\ k <= HooksOf(n)
        /\ \A a \in Ancestors(n) : Cardinality(EventsOf(a, j)) = HooksOf(a)

C3_Witness ==
  /\ \E j \in 1..Len(trace) : trace[j].node = K
  /\ \E j \in 1..Len(trace) : trace[j].node = B /\ trace[j].kind = "effect"

\* C4: in the tree Root -> A -> B, the value Root's update callback writes
\* to c during a pass is the value effect 2 of A (dependency c) reads when
\* it is evaluated in the same pass; when that value differs from the
\* effect's snapshot the effect runs in that pass and its action sees it.
RootWrote ==
  trace[CHOOSE j \in 1..Len(trace) :
          trace[j].kind = "update" /\ trace[j].node = Root /\ trace[j].idx = 1].arg

C4_SamePassVisibility ==
  [][Evaluates(A, 2) =>
       /\ \E j \in 1..Len(trace) :
            trace[j].kind = "update" /\ trace[j].node = Root /\ trace[j].idx = 1
       /\ cell.c = RootWrote
       /\ hookData[A].effects[2].dependencies[1].lastValue # <<RootWrote>>
            => (Ran /\ cell'.seen = RootWrote)]_vars

C4_Witness ==
  /\ \E j \in 1..Len(trace) :
       /\ trace[j].kind = "effect" /\ trace[j].node = A /\ trace[j].idx = 2
       /\ ~trace[j].first /\ trace[j].ran
  /\ \E j \in 1..Len(trace) : trace[j].node = B
  /\ cell.seen = RootWrote

\* C5 (as stated): when the walker starts descending into a node's
\* children, every derived cell of that node equals its computeFn applied to
\* the current value of its dependency, whatever else is registered there.
AtDescent == walk = "update" /\ stack # <<>> /\ Top.phase = "children" /\ Top.i = 1

IsDerived(eh) == eh.effectFn.kind = "derived"
Fresh(eh) == cell[eh.effectFn.target] = computeFn(eh.effectFn, cell)

C5_Original ==
  AtDescent =>
    \A i \in 1..Len(hookData[Top.node].effects) :
       IsDerived(hookData[Top.node].effects[i]) => Fresh(hookData[Top.node].effects[i])

\* C5 (amended): the same, for every derived cell none of whose
\* dependencies is written by an effect registered after it on that node.
NoLaterWriter(n, i) ==
  \A k \in (i + 1)..Len(hookData[n].effects) :
     hookData[n].effects[i].effectFn.source \notin Writes(hookData[n].effects[k].effectFn)

C5_FreshAtDescent ==
  AtDescent =>
    \A i \in 1..Len(hookData[Top.node].effects) :
       (IsDerived(hookData[Top.node].effects[i]) /\ NoLaterWriter(Top.node, i))
          => Fresh(hookData[Top.node].effects[i])

\* Root is about to descend after its update callback changed c in this pass
\* and its derived cell was recomputed.
C5_Witness ==
  /\ AtDescent /\ Top.node = Root
  /\ \E j \in 1..Len(trace) :
       /\ trace[j].kind = "effect" /\ trace[j].node = Root /\ trace[j].idx = 1
       /\ ~trace[j].first /\ trace[j].ran
  /\ cell.dRoot = cell.c + 1

\* C6: the derived cell d2 = computeFn(c2) reads computeFn of c2's value at
\* creation before any pass has run, and after c2 is set and one updateTree
\* pass has visited its node it reads computeFn of the new value.
C6_DerivedConsistency ==
  ("c2" \notin written \/ PassDone) => cell.d2 = cell.c2 + 1

C6_Witness ==
  /\ PassDone /\ "c2" \in written
  /\ \E j \in 1..Len(trace) :
       /\ trace[j].kind = "effect" /\ trace[j].node = B /\ trace[j].idx = 2
       /\ ~trace[j].first /\ trace[j].ran
  /\ cell.d2 = cell.c2 + 1

\* C7: at the end of every updateTree pass, the child component K is in
\* the Conditional wrapper W's child list exactly when the condition cell
\* was true at the evaluation of W's effect in that pass.
C7_MountedIffCondition ==
  PassDone => (IsChildOf(K, W) <=> SeenAt(W, 1, 1))

\* A pass ends with K still mounted although the effect did not run in it.
C7_Witness ==
  /\ PassDone /\ IsChildOf(K, W)
  /\ \E j \in 1..Len(trace) :
       /\ trace[j].kind = "effect" /\ trace[j].node = W /\ ~trace[j].ran

\* C8: whatever the writes to the condition cell and however many passes
\* run, K occurs at most once in W's child list.
C8_NoDuplicateChild ==
  Cardinality({k \in 1..Len(children[W]) : children[W][k] = K}) <= 1

\* K has been mounted, unmounted and mounted again.
C8_Witness ==
  /\ IsChildOf(K, W) /\ cell.cnt >= 1
  /\ Len(trace) >= 1
  /\ trace[Len(trace)].kind = "effect" /\ trace[Len(trace)].node = W
  /\ trace[Len(trace)].ran /\ ~trace[Len(trace)].first

\* C9: no step that starts or ends with K unmounted changes K's cell cnt:
\* from the unmount to the remount, both included, the cell keeps the value
\* K's update callback had accumulated.
C9_RoundTripPreservesState ==
  [][(~IsChildOf(K, W) \/ ~(\E k \in 1..Len(children'[W]) : children'[W][k] = K))
        => cell'.cnt = cell.cnt]_vars

\* The moment of a remount, with a value accumulated over two passes.
C9_Witness ==
  /\ IsChildOf(K, W) /\ cell.cnt >= 2
  /\ walk = "update" /\ stack # <<>> /\ Top.node = W
  /\ trace[Len(trace)].kind = "effect" /\ trace[Len(trace)].node = W
  /\ trace[Len(trace)].ran /\ ~trace[Len(trace)].first

\* The nodes reachable from n through the child lists, in depth-first
\* pre-order.
RECURSIVE PreOrder(_), PreOrderFrom(_)
PreOrder(n) ==
  IF n = NULL THEN <<>> ELSE <<n>> \o PreOrderFrom(children[n])

PreOrderFrom(list) ==
  IF list = <<>> THEN <<>>
  ELSE PreOrder(Head(list)) \o PreOrderFrom(Tail(list))

\* The callbacks a walker of the given kind owes node n, in registration
\* order.
CallbacksOf(kind, n) ==
  LET hd == hookData[n]
      list(k, len) == [j \in 1..len |-> <<k, n, j>>]
  IN CASE kind = "update" -> list("update", Len(hd.updateEffects))
                               \o list("effect", Len(hd.effects))
       [] kind = "render" -> list("render", Len(hd.renderEffects))
       [] kind = "event" -> list("event", Len(hd.eventEffects))

RECURSIVE CallbacksOfAll(_, _)
CallbacksOfAll(kind, nodes) ==
  IF nodes = <<>> THEN <<>>
  ELSE CallbacksOf(kind, Head(nodes)) \o CallbacksOfAll(kind, Tail(nodes))

Invoked == [j \in 1..Len(trace) |-> <<trace[j].kind, trace[j].node, trace[j].idx>>]

WalkDone == walk # "idle" /\ stack = <<>>

\* C11: when updateTree, renderTree or eventTree returns, the callbacks it
\* invoked are exactly the callbacks of its kind of the nodes reachable from
\* the root, each once, node by node in depth-first pre-order over the
\* child lists and in registration order within a node.
C11_PreOrderWalk ==
  WalkDone => Invoked = CallbacksOfAll(walk, PreOrder(Root))

C11_Witness ==
  /\ WalkDone /\ walk = "render" /\ cell.cnt > 0
  /\ PreOrder(Root) = <<Root, A, B, W, K>>
  /\ Len(trace) = 4

UninitializedAccess ==
  {"Accessing uninitialized state via get()",
   "Accessing uninitialized state via set()",
   "Accessing uninitialized state via getRef()"}

\* C14: every call of get(), set() or getRef() on an unbound handle throws
\* the uninitialized-access error, returns no value, and leaves every
\* state cell and the tree as they were.
C14_UnboundAccessThrows ==
  [][(call'.op \in {"get", "set", "getRef"} /\ call'.state = Unbound) =>
       /\ call'.result.fault \in UninitializedAccess
       /\ cell' = cell
       /\ <<parent', children', alive', hookData'>> =
            <<parent, children, alive, hookData>>]_vars

C14_Witness ==
  /\ call.op = "set" /\ call.state = Unbound
  /\ call.result.fault = "Accessing uninitialized state via set()"
  /\ cell.cnt > 0

\* What a read of a Prop owes its caller in the current state.
Current(prop) ==
  CASE prop.variant = "literal" -> <<prop.value>>
    [] prop.variant = "state" ->
         IF prop.state = Unbound THEN <<>> ELSE <<cell[prop.state]>>
    [] prop.variant = "function" ->
         IF prop.fn = EmptyFunction THEN <<>> ELSE <<cell[prop.fn.source] + 1>>

\* C19: val() of a literal Prop returns the literal, of a State Prop the
\* cell's value at the time of the read, of a function Prop the function's
\* result at the time of the read, whatever was read or written before;
\* val() of an empty function Prop or of a Prop holding an unbound cell
\* throws and returns nothing.
C19_PropRead ==
  call.op = "val" =>
    IF Current(call.prop) = <<>>
      THEN call.result.fault = "Invalid Prop<T> state or uninitialized provider"
      ELSE call.result = Returned(Current(call.prop)[1])

C19_Witness ==
  /\ call.op = "val" /\ call.prop = StateProp("c2")
  /\ call.result = Returned(cell.c2)
  /\ cell.d2 # cell.c2 + 1

\* C16: a runIfChanged call that does not execute the action leaves the
\* effect's first-run flag and the cached value of each of its trackers as
\* they were; no step other than a runIfChanged call of that effect in which
\* the action ran changes them.
C16_NoRunNoRefresh ==
  [][\A n \in BenchNodes : \A i \in 1..Len(hookData[n].effects) :
       /\ (Evaluates(n, i) /\ ~Ran) =>
             hookData'[n].effects[i] = hookData[n].effects[i]
       /\ hookData'[n].effects[i] # hookData[n].effects[i] =>
             (Evaluates(n, i) /\ Ran)]_vars

C16_Witness ==
  /\ trace # <<>>
  /\ trace[Len(trace)].kind = "effect" /\ trace[Len(trace)].idx = 2
  /\ ~trace[Len(trace)].ran
  /\ hookData[Root].effects[2].dependencies[1].lastValue # <<cell.vec>>
  /\ ~hookData[Root].effects[2].isFirstRun

\* C17: the effect registered without dependencies (effect 1 of B) executes
\* its action at its first evaluation and at no later one, whatever passes
\* and state-cell writes come in between.
C17_ZeroDepsOnce ==
  [][Evaluates(B, 1) =>
       /\ hookData[B].effects[1].dependencies = <<>>
       /\ Ran <=> NeverEvaluated(B, 1)]_vars

C17_Witness ==
  /\ \E j \in 1..Len(trace) :
       /\ trace[j].kind = "effect" /\ trace[j].node = B /\ trace[j].idx = 1
       /\ ~trace[j].ran
  /\ written # {}
  /\ cell.cnt >= 2

\* The evaluations of effect i of node n the trace of the walk holds.
EvaluationsOf(n, i) ==
  {j \in 1..Len(trace) :
     trace[j].kind = "effect" /\ trace[j].node = n /\ trace[j].idx = i}

\* The nodes an updateTree pass that has returned went through: a
\* Conditional changes its wrapper's child list before the pass iterates it.
Visited(n) == n \in Range(PreOrder(Root))

\* C23: when an updateTree pass returns, every effect of every node the
\* pass visited has been evaluated exactly once in it (and no effect of
\* another node at all); no step of a renderTree or eventTree walk
\* evaluates an effect or changes an effect's first-run flag or cached
\* dependency values.
C23_EffectsOncePerUpdatePass ==
  [][/\ PassDone =>
          \A n \in NodeIds : \A i \in 1..Len(hookData[n].effects) :
             Cardinality(EvaluationsOf(n, i)) = IF Visited(n) THEN 1 ELSE 0
     /\ (walk \in {"render", "event"} \/ walk' \in {"render", "event"}) =>
          /\ \A n \in NodeIds : hookData'[n].effects = hookData[n].effects
          /\ evalSeen' = evalSeen
          /\ \A j \in 1..Len(trace') : trace'[j].kind # "effect"]_vars

\* An eventTree walk has returned after a handler wrote c2: the snapshot
\* of B's derived effect over c2 is stale and has not been refreshed.
C23_Witness ==
  /\ walk = "event" /\ stack = <<>> /\ Len(trace) >= 2
  /\ ~hookData[B].effects[2].isFirstRun
  /\ hookData[B].effects[2].dependencies[1].lastValue # <<cell.c2>>

\* ------------------------------------------------- the tree-building API
\* The address the next node is made at.
FreeNode == CHOOSE n \in NodeIds \ alive : \A m \in NodeIds \ alive : n <= m
CanCreate == Cardinality(alive) < MaxTreeNodes /\ NodeIds \ alive # {}

\* The handles the host holds: every node but the pipes, which only the
\* Pipes component's deque and child list own.
Held == alive \ Range(cell.activePipes)

\* All lists of at most MaxChildren handles, null included.
HandleLists ==
  UNION {[1..k -> Held \cup {NULL}] : k \in 0..MaxChildren}

InitTree ==
  /\ alive = {PipesNode}
  /\ parent = [n \in NodeIds |-> NULL]
  /\ children = [n \in NodeIds |-> <<>>]
  /\ hookData = [n \in NodeIds |-> NoHooks]
  /\ providedContextsMap = NoContexts
  /\ call = NoCall
  /\ cell = [activePipes |-> <<>>]
  /\ walk = "idle"
  /\ stack = <<>>
  /\ trace = <<>>
  /\ evalSeen = [n \in NodeIds |-> <<>>]
  /\ written = {}

Observers == <<walk, stack, call, trace, evalSeen, written, providedContextsMap>>

\* The host calls createNode(p).
HostCreateNode ==
  /\ CanCreate
  /\ \E p \in Held \cup {NULL} : Install(createNode(Engine, FreeNode, p))
  /\ UNCHANGED Observers

\* The host calls p->AddChild(c).
HostAddChild ==
  /\ \E p \in Held, c \in Held \cup {NULL} :
       /\ Len(children[p]) < MaxChildren
       /\ Install(AddChild(Engine, p, c))
  /\ UNCHANGED Observers

\* The host calls p->RemoveChild(c).
HostRemoveChild ==
  /\ \E p \in Held, c \in Held \cup {NULL} : Install(RemoveChild(Engine, p, c))
  /\ UNCHANGED Observers

\* The host calls p->SetChildren(list).
HostSetChildren ==
  /\ \E p \in Held, list \in HandleLists : Install(SetChildren(Engine, p, list))
  /\ UNCHANGED Observers

PipesUpdate ==
  /\ \E spawn \in BOOLEAN, offscreen \in BOOLEAN :
       /\ spawn => CanCreate
       /\ offscreen => cell.activePipes # <<>>
       /\ spawn \/ offscreen
       /\ Install(PipesUpdateTree(Engine, spawn, offscreen,
                                  IF CanCreate THEN FreeNode ELSE NULL))
  /\ UNCHANGED Observers

PipesClear ==
  /\ cell.activePipes # <<>>
  /\ Install(PipesClearTree(Engine))
  /\ UNCHANGED Observers

NextTree ==
  \/ HostCreateNode
  \/ HostAddChild
  \/ HostRemoveChild
  \/ HostSetChildren
  \/ PipesUpdate
  \/ PipesClear

SpecTree == InitTree /\ [][NextTree]_vars

\* The list without its first entry identical to c.
WithoutFirst(list, c) ==
  LET k == CHOOSE j \in 1..Len(list) :
             list[j] = c /\ \A m \in 1..(j - 1) : list[m] # c
  IN [j \in 1..(Len(list) - 1) |-> IF j < k THEN list[j] ELSE list[j + 1]]

\* The list without any entry identical to c.
RECURSIVE WithoutAll(_, _)
WithoutAll(list, c) ==
  IF list = <<>> THEN <<>>
  ELSE (IF Head(list) = c THEN <<>> ELSE <<Head(list)>>) \o WithoutAll(Tail(list), c)

\* ------------------------------------------------ the child-list program
\* The nodes Root, A, B and W without callbacks; the host calls AddChild and
\* RemoveChild on Root and A with another node or a null pointer as the
\* argument.
\* AddChild does not look for the child in the list, so a list can hold the
\* same child twice.
Parents == {Root, A}
Kids == {A, B, W}

InitChildren ==
  /\ alive = {Root, A, B, W}
  /\ parent = [n \in NodeIds |-> NULL]
  /\ children = [n \in NodeIds |-> <<>>]
  /\ hookData = [n \in NodeIds |-> NoHooks]
  /\ providedContextsMap = NoContexts
  /\ call = NoCall
  /\ cell = [activePipes |-> <<>>]
  /\ walk = "idle"
  /\ stack = <<>>
  /\ trace = <<>>
  /\ evalSeen = [n \in NodeIds |-> <<>>]
  /\ written = {}

Occurrences(list, c) == Cardinality({k \in 1..Len(list) : list[k] = c})

Quiet == <<walk, stack, trace, evalSeen, written, providedContextsMap>>

\* p->AddChild(c)
ChildrenAdd ==
  /\ \E p \in Parents : \E c \in (Kids \ {p}) \cup {NULL} :
       /\ Len(children[p]) < MaxChildren
       /\ Install(AddChild(Engine, p, c))
  /\ call' = NoCall
  /\ UNCHANGED Quiet

\* p->RemoveChild(c); `had` is the number of entries identical to c the
\* list held when the call was made.
ChildrenRemove ==
  /\ \E p \in Parents : \E c \in (Kids \ {p}) \cup {NULL} :
       /\ Install(RemoveChild(Engine, p, c))
       /\ call' = [op |-> "RemoveChild", p |-> p, c |-> c,
                   had |-> Occurrences(children[p], c)]
  /\ UNCHANGED Quiet

\* The lists a caller hands to p->SetChildren: handles, null handles
\* included, in any order and with repetitions.
ChildLists(p) ==
  UNION {[1..k -> (Kids \ {p}) \cup {NULL}] : k \in 0..MaxChildren}

\* p->SetChildren(list)
ChildrenSet ==
  /\ \E p \in Parents : \E list \in ChildLists(p) :
       /\ Install(SetChildren(Engine, p, list))
       /\ call' = [op |-> "SetChildren", p |-> p, list |-> list]
  /\ UNCHANGED Quiet

NextChildren ==
  \/ ChildrenAdd
  \/ ChildrenRemove
  \/ ChildrenSet

SpecChildren == InitChildren /\ [][NextChildren]_vars

\* What p->RemoveChild(c) leaves alone: every other child list, every
\* other parent pointer, and the rest of the engine's state.
OthersUntouched(p, c) ==
  /\ \A q \in NodeIds \ {p} : children'[q] = children[q]
  /\ \A n \in NodeIds \ {c} : parent'[n] = parent[n]
  /\ UNCHANGED <<alive, hookData, cell>>

\* C20 (as stated): p->RemoveChild(c) with c in p's child list erases the
\* first entry identical to c, keeps every other entry, and nulls c's parent
\* pointer; with c not in the list (or null) the child lists and the parent
\* pointers are unchanged.
C20_Original ==
  [][call'.op = "RemoveChild" =>
       LET p == call'.p
           c == call'.c
       IN IF c \in Range(children[p])
            THEN /\ children'[p] = WithoutFirst(children[p], c)
                 /\ parent'[c] = NULL
                 /\ OthersUntouched(p, c)
            ELSE children' = children /\ parent' = parent]_vars

\* C20 (amended): with c in p's child list the call erases every entry
\* identical to c, keeps the other entries in their order, and nulls c's
\* parent pointer; with c not in the list it changes nothing.
C20_RemovesEveryEntry ==
  [][call'.op = "RemoveChild" =>
       LET p == call'.p
           c == call'.c
       IN IF c \in Range(children[p])
            THEN /\ children'[p] = WithoutAll(children[p], c)
                 /\ parent'[c] = NULL
                 /\ OthersUntouched(p, c)
            ELSE children' = children /\ parent' = parent]_vars

\* The call has removed both entries of a child that was listed twice.
C20_Witness ==
  /\ call.op = "RemoveChild" /\ call.had = 2
  /\ call.c \notin Range(children[call.p])
  /\ parent[call.c] = NULL


NonNull(list) == SelectSeq(list, LAMBDA x : x # NULL)

\* C21: after p->SetChildren(list), p's child list is exactly the non-null
\* entries of list in the given order, every node in the list has parent p,
\* and every former child of p that is not in the list has a null parent
\* pointer.
C21_SetChildren ==
  [][call'.op = "SetChildren" =>
       LET p == call'.p
           list == call'.list
       IN /\ children'[p] = NonNull(list)
          /\ \A n \in Range(list) \ {NULL} : parent'[n] = p
          /\ \A n \in Range(children[p]) \ Range(list) :
               n # NULL => parent'[n] = NULL]_vars

\* A list that keeps one former child, drops another and holds a null
\* entry has been installed.
C21_Witness ==
  /\ call.op = "SetChildren"
  /\ NULL \in Range(call.list)
  /\ children[call.p] # <<>>
  /\ \E n \in Kids : n \notin Range(call.list) /\ parent[n] = NULL
  /\ \E q \in Parents \ {call.p} : children[q] # <<>>

\* ------------------------------------------------ the dependency program
\* A single node whose effects depend on cells of the types Dependency<T>
\* tells apart, and on Props:
\*   effect 1  over num, an int;
\*   effect 2  over vec, a std::vector<int>;
\*   effect 3  over rect, a struct without operator==;
\*   effect 4  over a literal Prop, a function Prop reading num, and an int;
\*   effect 5  over a Prop holding the State num.
\* The host writes num, vec and rect between passes.
MaxVecLen == 1
VecElems == {0, 1}
VecVals == UNION {[1..k -> VecElems] : k \in 0..MaxVecLen}

DepsHooks ==
  [n \in NodeIds |->
     IF n = Root
       THEN [updateEffects |-> <<[kind |-> "noop"]>>,
             effects |->
               <<effect([kind |-> "noop"], <<"num">>),
                 effect([kind |-> "noop"], <<"vec">>),
                 effect([kind |-> "noop"], <<"rect">>),
                 effectOver([kind |-> "noop"],
                            <<PropArg(Literal(0)),
                              PropArg(FunctionProp([kind |-> "compute",
                                                    source |-> "num"])),
                              OtherArg>>),
                 effectOver([kind |-> "noop"], <<PropArg(StateProp("num"))>>)>>,
             renderEffects |-> <<>>,
             eventEffects |-> <<>>]
       ELSE NoHooks]

InitDeps ==
  /\ alive = {Root}
  /\ parent = [n \in NodeIds |-> NULL]
  /\ children = [n \in NodeIds |-> <<>>]
  /\ hookData = DepsHooks
  /\ providedContextsMap = NoContexts
  /\ call = NoCall
  /\ \E v \in Vals, q \in VecVals, r \in Vals :
       cell = [num |-> v, vec |-> q, rect |-> r, cnt |-> 0]
  /\ walk = "idle"
  /\ stack = <<>>
  /\ trace = <<>>
  /\ evalSeen = [n \in NodeIds |-> [k \in 1..Len(DepsHooks[n].effects) |-> <<>>]]
  /\ written = {}

DepsSet ==
  /\ walk = "idle"
  /\ \/ \E v \in Vals : cell' = [cell EXCEPT !.num = v] /\ written' = written \cup {"num"}
     \/ \E q \in VecVals : cell' = [cell EXCEPT !.vec = q] /\ written' = written \cup {"vec"}
     \/ \E r \in Vals : cell' = [cell EXCEPT !.rect = r] /\ written' = written \cup {"rect"}
  /\ UNCHANGED <<parent, children, alive, hookData, providedContextsMap, walk,
                 stack, call, trace, evalSeen>>

NextDeps ==
  \/ DepsSet
  \/ HostUpdate
  \/ UpdateCallback
  \/ EvalEffect
  \/ Return
  \/ Finish

SpecDeps == InitDeps /\ [][NextDeps]_vars

\* The trackers of the node's effects.
Trackers ==
  UNION {Range(hookData[Root].effects[i].dependencies) :
           i \in 1..Len(hookData[Root].effects)}

\* Equality of two values of the cell's type as the claim describes it:
\* collections by size, everything else by value.
EqualAsStated(state, x, y) ==
  IF state \in VectorCells THEN Len(x) = Len(y) ELSE x = y

\* C15 (as stated): a tracker bound to a valid cell reports changed exactly
\* when it has no cached value or the cell's current value is not equal to
\* the cached one, collections being compared by size and every other type
\* by value.
C15_Original ==
  \A dep \in Trackers :
     isValid(dep.state) =>
       (hasChanged(dep, cell) <=>
          (dep.lastValue = <<>>
             \/ ~EqualAsStated(dep.state, cell[dep.state], dep.lastValue[1])))

\* C15 (amended): the same, except that a tracker with a cached value whose
\* cell type has no equality operator always reports changed.
C15_ChangedByType ==
  \A dep \in Trackers :
     isValid(dep.state) =>
       (hasChanged(dep, cell) <=>
          (\/ dep.lastValue = <<>>
           \/ dep.state \in OpaqueCells
           \/ ~EqualAsStated(dep.state, cell[dep.state], dep.lastValue[1])))

C15_Witness ==
  /\ walk = "update" /\ Len(trace) = 4
  /\ \A j \in 2..4 : ~trace[j].first
  /\ ~trace[3].ran
  /\ cell.vec # hookData[Root].effects[2].dependencies[1].lastValue[1]
  /\ trace[4].ran
  /\ "rect" \notin written
  /\ trace[2].ran

SnapshotHooks ==
  [n \in NodeIds |->
     IF n = Root
       THEN [updateEffects |-> <<[kind |-> "noop"]>>,
             effects |->
               <<effect([kind |-> "increment", target |-> "cnt"], <<"num", "vec">>),
                 effect([kind |-> "noop"], <<"num", "vec", "rect">>)>>,
             renderEffects |-> <<>>,
             eventEffects |-> <<>>]
       ELSE NoHooks]

InitSnapshot ==
  /\ alive = {Root}
  /\ parent = [n \in NodeIds |-> NULL]
  /\ children = [n \in NodeIds |-> <<>>]
  /\ hookData = SnapshotHooks
  /\ providedContextsMap = NoContexts
  /\ call = NoCall
  /\ \E v \in Vals, q \in VecVals :
       cell = [num |-> v, vec |-> q, rect |-> 0, cnt |-> 0]
  /\ walk = "idle"
  /\ stack = <<>>
  /\ trace = <<>>
  /\ evalSeen = [n \in NodeIds |-> [k \in 1..Len(SnapshotHooks[n].effects) |-> <<>>]]
  /\ written = {}

SnapshotSet ==
  /\ walk = "idle"
  /\ \/ \E v \in Vals : cell' = [cell EXCEPT !.num = v] /\ written' = written \cup {"num"}
     \/ \E q \in VecVals : cell' = [cell EXCEPT !.vec = q] /\ written' = written \cup {"vec"}
  /\ UNCHANGED <<parent, children, alive, hookData, providedContextsMap, walk,
                 stack, call, trace, evalSeen>>

NextSnapshot ==
  \/ SnapshotSet
  \/ HostUpdate
  \/ UpdateCallback
  \/ EvalEffect
  \/ Return
  \/ Finish

SpecSnapshot == InitSnapshot /\ [][NextSnapshot]_vars

\* The cells effect i depends on, and whether the host wrote one of them
\* since the last pass.
DependencyCells(i) ==
  {hookData[Root].effects[i].dependencies[k].state :
     k \in 1..Len(hookData[Root].effects[i].dependencies)}

Untouched(i) == DependencyCells(i) \cap written = {}

\* Every cached value of effect i, after this step, is its cell's value.
SnapshotCurrent(i) ==
  \A k \in 1..Len(hookData'[Root].effects[i].dependencies) :
     hookData'[Root].effects[i].dependencies[k].lastValue =
       <<cell'[hookData'[Root].effects[i].dependencies[k].state]>>

\* What one evaluation of a several-dependency effect does.
OneRun(i) ==
  Evaluates(Root, i) =>
    /\ Ran => SnapshotCurrent(i)
    /\ (~NeverEvaluated(Root, i) /\ Untouched(i)) => ~Ran

\* C35 (as stated): one runIfChanged call of an effect with several
\* dependencies executes the action at most once however many of them
\* changed, a run leaves every cached value equal to its cell's value, and
\* the next call, no dependency having been written in between, does not
\* run the action; for every effect with several dependencies.
C35_Original ==
  [][/\ Evaluates(Root, 1) => cell'.cnt = cell.cnt + (IF Ran THEN 1 ELSE 0)
     /\ OneRun(1)
     /\ OneRun(2)]_vars

\* C35 (amended): the same for an effect whose dependencies all have an
\* equality operator or a size; an effect with a dependency of a type
\* without either still refreshes every cached value at a run, and runs at
\* every call.
C35_OneRunRefreshesAll ==
  [][/\ Evaluates(Root, 1) =>
          /\ cell'.cnt = cell.cnt + (IF Ran THEN 1 ELSE 0)
          /\ Ran => SnapshotCurrent(1)
          /\ (~NeverEvaluated(Root, 1) /\ Untouched(1)) => ~Ran
     /\ Evaluates(Root, 2) => (Ran /\ SnapshotCurrent(2))]_vars

\* Effect 1 has just run, not for the first time, num and vec both having
\* changed since the previous pass (effect 2, not yet evaluated in this
\* pass, still holds what they were).
C35_Witness ==
  /\ walk = "update" /\ Len(trace) = 2
  /\ trace[2].ran /\ ~trace[2].first
  /\ ~NeverEvaluated(Root, 2)
  /\ cell.num # SeenAt(Root, 2, 1)
  /\ Len(cell.vec) # Len(SeenAt(Root, 2, 2))
  /\ cell.cnt = 2

\* ---------------------------------------------- the self-writing program
\* A single node whose effects write a cell they depend on:
\*   effect 1  over own, an int; its action writes a computed value to own;
\*   effect 2  over rect, a struct without operator==; its action writes a
\*             computed value to rect.
\* The host writes own between passes.
SelfWriteHooks ==
  [n \in NodeIds |->
     IF n = Root
       THEN [updateEffects |-> <<[kind |-> "noop"]>>,
             effects |->
               <<effect([kind |-> "write", target |-> "own"], <<"own">>),
                 effect([kind |-> "write", target |-> "rect"], <<"rect">>)>>,
             renderEffects |-> <<>>,
             eventEffects |-> <<>>]
       ELSE NoHooks]

InitSelfWrite ==
  /\ alive = {Root}
  /\ parent = [n \in NodeIds |-> NULL]
  /\ children = [n \in NodeIds |-> <<>>]
  /\ hookData = SelfWriteHooks
  /\ providedContextsMap = NoContexts
  /\ call = NoCall
  /\ \E v \in Vals, r \in Vals : cell = [own |-> v, rect |-> r, cnt |-> 0]
  /\ walk = "idle"
  /\ stack = <<>>
  /\ trace = <<>>
  /\ evalSeen = [n \in NodeIds |-> [k \in 1..Len(SelfWriteHooks[n].effects) |-> <<>>]]
  /\ written = {}

SelfWriteSet ==
  /\ walk = "idle"
  /\ \E v \in Vals : cell' = [cell EXCEPT !.own = v] /\ written' = written \cup {"own"}
  /\ UNCHANGED <<parent, children, alive, hookData, providedContextsMap, walk,
                 stack, call, trace, evalSeen>>

NextSelfWrite ==
  \/ SelfWriteSet
  \/ HostUpdate
  \/ UpdateCallback
  \/ EvalEffect
  \/ Return
  \/ Finish

SpecSelfWrite == InitSelfWrite /\ [][NextSelfWrite]_vars

\* What one evaluation of an effect that writes its own dependency does.
Absorbs(i, state) ==
  Evaluates(Root, i) =>
    /\ Ran => hookData'[Root].effects[i].dependencies[1].lastValue = <<cell'[state]>>
    /\ (~NeverEvaluated(Root, i) /\ Ran) =>
         /\ state \in written
         /\ cell[state] # hookData[Root].effects[i].dependencies[1].lastValue[1]

\* C36 (as stated): the write an effect's action makes to the effect's own
\* dependency is covered by the snapshot taken after the action, and the
\* effect runs again at a later evaluation only if the cell was written to
\* a value different from the one the action left; for every such effect.
C36_Original ==
  [][Absorbs(1, "own") /\ Absorbs(2, "rect")]_vars

\* C36 (amended): the same for a dependency whose type has an equality
\* operator or a size; with a dependency of a type without either the
\* snapshot is taken all the same and the effect runs at every evaluation.
C36_SelfWriteAbsorbed ==
  [][/\ Absorbs(1, "own")
     /\ Evaluates(Root, 2) =>
          /\ Ran
          /\ hookData'[Root].effects[2].dependencies[1].lastValue
               = <<cell'.rect>>]_vars

\* Effect 1, evaluated again after the host wrote own, has just run and
\* written a value other than the one it was evaluated with; its snapshot
\* holds the value it wrote.
C36_Witness ==
  /\ walk = "update" /\ Len(trace) = 2
  /\ trace[2].ran /\ ~trace[2].first
  /\ trace[2].arg # SeenAt(Root, 1, 1)
  /\ cell.own = trace[2].arg
  /\ hookData[Root].effects[1].dependencies[1].lastValue = <<cell.own>>

\* --------------------------------------------------- the context program
\* The bench tree without callbacks, as a host builds and rebuilds it: B and
\* K are detached with RemoveChild and attached under A or W with AddChild,
\* and nodes publish context entries at any time.
Movable == {B, K}
Hosts == {A, W}

InitContext ==
  /\ alive = BenchNodes
  /\ parent = [n \in NodeIds |-> CASE n = A -> Root [] n = B -> A
                                   [] n = W -> Root [] OTHER -> NULL]
  /\ children = [n \in NodeIds |-> CASE n = Root -> <<A, W>> [] n = A -> <<B>>
                                     [] OTHER -> <<>>]
  /\ hookData = [n \in NodeIds |-> NoHooks]
  /\ providedContextsMap = NoContexts
  /\ call = NoCall
  /\ cell = BenchCells(0, 0, FALSE)
  /\ walk = "idle"
  /\ stack = <<>>
  /\ trace = <<>>
  /\ evalSeen = [n \in NodeIds |-> <<>>]
  /\ written = {}

Provided == {<<n, k>> \in alive \X CtxKeys : providedContextsMap[n][k] # NoEntry}

\* node->provideContext<T>(key, &data)
ContextProvide ==
  /\ \E n \in alive, k \in CtxKeys, T \in CtxTypes, a \in Addresses :
       /\ <<n, k>> \in Provided \/ Cardinality(Provided) < MaxProviders
       /\ providedContextsMap' = provideContext(providedContextsMap, n, k, T, a)
  /\ UNCHANGED <<parent, children, alive, hookData, cell, walk, stack, call,
                 trace, evalSeen, written>>

ContextAddChild ==
  /\ \E p \in Hosts, c \in Movable :
       /\ parent[c] = NULL
       /\ Install(AddChild(Engine, p, c))
  /\ UNCHANGED Observers

ContextRemoveChild ==
  /\ \E c \in Movable :
       /\ parent[c] # NULL
       /\ Install(RemoveChild(Engine, parent[c], c))
  /\ UNCHANGED Observers

NextContext ==
  \/ ContextProvide
  \/ ContextAddChild
  \/ ContextRemoveChild

SpecContext == InitContext /\ [][NextContext]_vars

\* getContextValue<T>(key) called on node n in the current state.
resolve(n, k, T) == getContextValue(parent, providedContextsMap, n, k, T)

\* The nodes below n in the tree of child lists.
RECURSIVE DescendantsOf(_)
DescendantsOf(n) ==
  LET kids == Range(children[n]) \ {NULL}
  IN kids \cup UNION {DescendantsOf(c) : c \in kids}

\* No node from m up to the root of its parent chain holds an entry under k.
NoProviderAbove(m, k) ==
  \A x \in {m} \cup Ancestors(m) : <<x, k>> \notin Provided

\* Some node on the path from d up to, but excluding, n holds an entry
\* under k.
Shadowed(d, n, k) ==
  \E x \in DescendantsOf(n) :
     <<x, k>> \in Provided /\ (x = d \/ d \in DescendantsOf(x))

\* C12 (as stated): the entry node N holds under a key resolves, with its
\* type, to its value from N and from every node below N; a node that is
\* neither N nor below N, and has no entry under the key on its own parent
\* chain, resolves the key to not-found; at N another type resolves to
\* not-found.
C12_Original ==
  \A pk \in Provided :
     LET N == pk[1]
         k == pk[2]
         e == providedContextsMap[N][k]
     IN /\ \A d \in {N} \cup DescendantsOf(N) : resolve(d, k, e.type) = e.value
        /\ \A m \in alive \ ({N} \cup DescendantsOf(N)) :
              NoProviderAbove(m, k) => \A T \in CtxTypes : resolve(m, k, T) = NULL
        /\ \A T \in CtxTypes \ {e.type} : resolve(N, k, T) = NULL

\* C12 (amended): as above, but from a node below N the entry of N resolves
\* only when no node on the path from that node up to N holds an entry of
\* its own under the key.
C12_NearestProvider ==
  \A pk \in Provided :
     LET N == pk[1]
         k == pk[2]
         e == providedContextsMap[N][k]
     IN /\ resolve(N, k, e.type) = e.value
        /\ \A d \in DescendantsOf(N) :
              ~Shadowed(d, N, k) => resolve(d, k, e.type) = e.value
        /\ \A m \in alive \ ({N} \cup DescendantsOf(N)) :
              NoProviderAbove(m, k) => \A T \in CtxTypes : resolve(m, k, T) = NULL
        /\ \A T \in CtxTypes \ {e.type} : resolve(N, k, T) = NULL

C12_Witness ==
  \E k \in CtxKeys :
     LET e == providedContextsMap[A][k]
     IN /\ e # NoEntry
        /\ IsChildOf(B, A) /\ IsChildOf(K, W)
        /\ resolve(B, k, e.type) = e.value
        /\ resolve(K, k, e.type) = NULL
        /\ resolve(Root, k, e.type) = NULL
        /\ \E k2 \in CtxKeys \ {k} : providedContextsMap[W][k2] # NoEntry

\* The nodes of n's parent chain, n included, that hold an entry under k.
ProvidersAbove(n, k) == {x \in {n} \cup Ancestors(n) : <<x, k>> \in Provided}

\* x is the provider of k nearest to n on n's parent chain.
IsNearest(x, n, k) ==
  /\ x \in ProvidersAbove(n, k)
  /\ \A y \in ProvidersAbove(n, k) : x \notin Ancestors(y)

\* The result of the same call if node x had published nothing under k.
resolveWithout(x, n, k, T) ==
  getContextValue(parent, [providedContextsMap EXCEPT ![x][k] = NoEntry], n, k, T)

\* C13 (as stated): when a node of n's parent chain holds an entry under k
\* whose stored type is not the requested type T, resolving k as T from n
\* gives what it would give had that node published no entry under k.
C13_Original ==
  \A n \in alive, k \in CtxKeys, T \in CtxTypes :
     \A x \in ProvidersAbove(n, k) :
        providedContextsMap[x][k].type # T
          => resolve(n, k, T) = resolveWithout(x, n, k, T)

\* C13 (amended): when the entry under k nearest to n on its parent chain
\* has a stored type other than the requested type T, resolving k as T from
\* n gives not-found, whatever entries the nodes farther up hold; an entry
\* of another type that is not the nearest one has no influence.
C13_MismatchIsNotFound ==
  \A n \in alive, k \in CtxKeys, T \in CtxTypes :
     \A x \in ProvidersAbove(n, k) :
        providedContextsMap[x][k].type # T
          => IF IsNearest(x, n, k)
               THEN resolve(n, k, T) = NULL
               ELSE resolve(n, k, T) = resolveWithout(x, n, k, T)

C13_Witness ==
  \E k \in CtxKeys, T \in CtxTypes :
     /\ IsChildOf(B, A)
     /\ providedContextsMap[A][k] # NoEntry
     /\ providedContextsMap[A][k].type # T
     /\ providedContextsMap[Root][k].type = T
     /\ resolve(B, k, T) = NULL
     /\ resolveWithout(A, B, k, T) = providedContextsMap[Root][k].value

\* ------------------------------------------------------ the fault program
\* A root with the children A and B.  A registers, between callbacks that
\* do nothing, an update callback, an effect action, a render callback and
\* an event callback that each read an unbound State<T> handle when a flag
\* cell of their own is set.
Reader(flag) == [kind |-> "readIf", condition |-> flag, state |-> Unbound]

FaultHooks ==
  [n \in NodeIds |->
     CASE n = A ->
            [updateEffects |-> <<[kind |-> "noop"], Reader("badUpdate"),
                                 [kind |-> "noop"]>>,
             effects |-> <<effect(Reader("badEffect"), <<"badEffect">>),
                           effect([kind |-> "noop"], <<"badEffect">>)>>,
             renderEffects |-> <<Reader("badRender"), [kind |-> "draw"]>>,
             eventEffects |-> <<Reader("badEvent"), [kind |-> "noop"]>>]
       [] n \in {Root, B} ->
            [updateEffects |-> <<[kind |-> "noop"]>>,
             effects |-> <<effect([kind |-> "noop"], <<"badEffect">>)>>,
             renderEffects |-> <<[kind |-> "draw"]>>,
             eventEffects |-> <<[kind |-> "noop"]>>]
       [] OTHER -> NoHooks]

FaultFlags == {"badUpdate", "badEffect", "badRender", "badEvent"}

InitFault ==
  /\ alive = {Root, A, B}
  /\ parent = [n \in NodeIds |-> IF n \in {A, B} THEN Root ELSE NULL]
  /\ children = [n \in NodeIds |-> IF n = Root THEN <<A, B>> ELSE <<>>]
  /\ hookData = FaultHooks
  /\ providedContextsMap = NoContexts
  /\ call = NoCall
  /\ cell = [badUpdate |-> FALSE, badEffect |-> FALSE, badRender |-> FALSE,
             badEvent |-> FALSE, cnt |-> 0]
  /\ walk = "idle"
  /\ stack = <<>>
  /\ trace = <<>>
  /\ evalSeen = [n \in NodeIds |-> [k \in 1..Len(FaultHooks[n].effects) |-> <<>>]]
  /\ written = {}

\* The host writes a flag cell between walks.
FaultSet ==
  /\ walk = "idle"
  /\ \E flag \in FaultFlags, b \in BOOLEAN :
       /\ cell' = [cell EXCEPT ![flag] = b]
       /\ written' = written \cup {flag}
  /\ call' = NoCall
  /\ UNCHANGED <<parent, children, alive, hookData, providedContextsMap, walk,
                 stack, trace, evalSeen>>

NextFault ==
  \/ FaultSet
  \/ HostUpdate
  \/ HostRender
  \/ HostEvent
  \/ UpdateCallback
  \/ EvalEffect
  \/ RenderCallback
  \/ EventCallback
  \/ Descend
  \/ Return
  \/ Finish

SpecFault == InitFault /\ [][NextFault]_vars

\* The walker call the host made has been left by an exception.
Faulted == "fault" \in DOMAIN call

\* The callbacks the walk in progress owes, in pre-order.
Due == CallbacksOfAll(walk, PreOrder(Root))

\* C24: when a callback or an effect action raises during a walk, the
\* exception leaves updateTree / renderTree / eventTree at that step and
\* reaches the caller; the callbacks invoked in the walk are the ones that
\* precede the raising one in pre-order and the raising one, each once, and
\* none that follows it; the raising effect's snapshot is not refreshed.
\* A walk in which nothing raises invokes every callback.
C24_FaultAbortsWalk ==
  [][/\ (~Faulted /\ Faulted') =>
          /\ stack' = <<>> /\ walk' = walk
          /\ call'.fault = "Accessing uninitialized state via get()"
          /\ UNCHANGED <<hookData, cell, children, parent>>
     /\ Faulted =>
          /\ trace' = trace \/ trace' = <<>>
          /\ UNCHANGED <<hookData, cell, children, parent>>
     /\ WalkDone =>
          IF Faulted
            THEN /\ trace # <<>> /\ Len(trace) <= Len(Due)
                 /\ Invoked = SubSeq(Due, 1, Len(trace))
                 /\ trace[Len(trace)].node = A
            ELSE Invoked = Due]_vars

\* An updateTree pass was left by A's effect action: the callbacks before
\* it were invoked, the effect after it in A and B's callbacks were not.
C24_Witness ==
  /\ walk = "update" /\ stack = <<>> /\ Faulted
  /\ trace[Len(trace)].kind = "effect"
  /\ Len(trace) = 6
  /\ Len(Due) = 9

\* ------------------------------------------------------ the mount program
\* A root whose first child is a Conditional wrapper over K and whose
\* second child is A.  K has an update callback, an effect over the number
\* cell c2 that copies c2 into seenK and an effect over rect, a cell of a struct type without
\* operator==; A has an effect that copies c2 into seen.  A is visited after
\* K in a pass, so while K's effects are evaluated `seen` still holds the
\* value c2 had in the pass before.
MountHooks ==
  [n \in NodeIds |->
     CASE n = Root ->
            [updateEffects |-> <<[kind |-> "noop"]>>,
             effects |-> <<>>,
             renderEffects |-> <<>>,
             eventEffects |-> <<[kind |-> "store", target |-> "c2"]>>]
       [] n = W ->
            [updateEffects |-> <<>>,
             effects |-> <<Conditional(W, "cond", K)>>,
             renderEffects |-> <<>>,
             eventEffects |-> <<>>]
       [] n = K ->
            [updateEffects |-> <<[kind |-> "noop"]>>,
             effects |-> <<effect([kind |-> "observe", target |-> "seenK",
                                   source |-> "c2"], <<"c2">>),
                           effect([kind |-> "noop"], <<"rect">>)>>,
             renderEffects |-> <<>>,
             eventEffects |-> <<>>]
       [] n = A ->
            [updateEffects |-> <<>>,
             effects |-> <<effect([kind |-> "observe", target |-> "seen",
                                   source |-> "c2"], <<"c2">>)>>,
             renderEffects |-> <<>>,
             eventEffects |-> <<>>]
       [] OTHER -> NoHooks]

InitMount ==
  /\ alive = {Root, W, K, A}
  /\ parent = [n \in NodeIds |-> IF n \in {W, A} THEN Root ELSE NULL]
  /\ children = [n \in NodeIds |-> IF n = Root THEN <<W, A>> ELSE <<>>]
  /\ hookData = MountHooks
  /\ providedContextsMap = NoContexts
  /\ call = NoCall
  /\ \E v \in Vals, b \in BOOLEAN :
       cell = [cond |-> b, c2 |-> v, rect |-> 0, seen |-> 0, seenK |-> 0,
               cnt |-> 0]
  /\ walk = "idle"
  /\ stack = <<>>
  /\ trace = <<>>
  /\ evalSeen = [n \in NodeIds |-> [k \in 1..Len(MountHooks[n].effects) |-> <<>>]]
  /\ written = {}

\* The host writes a state cell between walks.
MountSet ==
  /\ walk = "idle"
  /\ \/ \E v \in Vals : cell' = [cell EXCEPT !.c2 = v] /\ written' = written \cup {"c2"}
     \/ \E b \in BOOLEAN : cell' = [cell EXCEPT !.cond = b] /\ written' = written \cup {"cond"}
     \/ \E r \in Vals : cell' = [cell EXCEPT !.rect = r] /\ written' = written \cup {"rect"}
  /\ call' = NoCall
  /\ UNCHANGED <<parent, children, alive, hookData, providedContextsMap, walk,
                 stack, trace, evalSeen>>

\* The host makes one of the degenerate calls: p->AddChild(nullptr),
\* p->RemoveChild(c) with c null or not in p's child list, a walker on a
\* null node, or eventTree with a null event.
HostNullCall ==
  /\ walk = "idle"
  /\ \/ \E p \in alive :
          /\ Install(AddChild(Engine, p, NULL))
          /\ call' = [op |-> "AddChild", p |-> p, c |-> NULL]
          /\ UNCHANGED <<walk, stack>>
     \/ \E p \in alive : \E c \in ((alive \ {p}) \ Range(children[p])) \cup {NULL} :
          /\ Install(RemoveChild(Engine, p, c))
          /\ call' = [op |-> "RemoveChild", p |-> p, c |-> c]
          /\ UNCHANGED <<walk, stack>>
     \/ \E kind \in {"update", "render", "event"}, node \in {NULL, Root},
           event \in Vals \cup {NoEvent} :
          /\ node = NULL \/ (kind = "event" /\ event = NoEvent)
          /\ kind # "event" => event = NoEvent
          /\ call' = [op |-> "walk", kind |-> kind, node |-> node,
                      event |-> event]
          /\ IF Starts(kind, node, event)
               THEN walk' = kind /\ stack' = <<EnterAs(kind, node, Engine)>>
               ELSE walk' = "idle" /\ stack' = <<>>
          /\ UNCHANGED <<parent, children, alive, hookData, cell>>
  /\ UNCHANGED <<providedContextsMap, trace, evalSeen, written>>

NextMount ==
  \/ MountSet
  \/ HostNullCall
  \/ HostUpdate
  \/ UpdateCallback
  \/ EvalEffect
  \/ Descend
  \/ Return
  \/ Finish

SpecMount == InitMount /\ [][NextMount]_vars

\* C22: adding a null child, removing an absent or null child, walking a
\* null node and dispatching a null event return at once and leave every
\* child list, parent pointer, state cell and effect snapshot as it was.
C22_NullCallsAreNoOps ==
  [][call'.op \in {"AddChild", "RemoveChild", "walk"}
       => /\ walk' = "idle" /\ stack' = <<>>
          /\ UNCHANGED <<children, parent, cell, hookData, alive, trace>>]_vars

\* With K mounted and every effect holding a snapshot, the host has
\* removed from the root a node that is another node's child, or has
\* dispatched a null event to the root.
C22_Witness ==
  /\ children[W] = <<K>>
  /\ \A n \in {W, K, A} : \A k \in 1..Len(hookData[n].effects) :
        ~hookData[n].effects[k].isFirstRun
  /\ \/ call.op = "RemoveChild" /\ call.p = Root /\ call.c = K
     \/ call.op = "walk" /\ call.node = Root /\ call.event = NoEvent

\* The effect evaluated by the step had a dependency whose current value
\* differs from the value snapshotted at the effect's previous run.
DiffersFromSnapshot(eh) ==
  \E k \in 1..Len(eh.dependencies) :
     DepValues(eh, cell)[k] # eh.dependencies[k].lastValue

\* C27 (as stated): an effect that has run before runs at an evaluation
\* exactly when a dependency's value differs from the value snapshotted at
\* its previous run; a dependency changed and restored in between, also
\* while the node was unmounted, does not make it run.
C27_Original ==
  [][\A i \in 1..Len(hookData[K].effects) :
       Evaluates(K, i) /\ ~NeverEvaluated(K, i)
         => (Ran <=> DiffersFromSnapshot(hookData[K].effects[i]))]_vars

\* C27 (amended): the same for an effect whose dependencies are all of a
\* compared type; the action of K's first effect, which copies c2, is then
\* executed exactly when c2 differs from the copy it made at its previous
\* run.  An effect with a dependency of a type without an equality
\* operator runs at every evaluation, restored value or not.
C27_RestoredNoRun ==
  [][\A i \in 1..Len(hookData[K].effects) :
       Evaluates(K, i) /\ ~NeverEvaluated(K, i)
         => LET eh == hookData[K].effects[i]
            IN IF \E k \in 1..Len(eh.dependencies) :
                     Comparison(eh.dependencies[k].state) = "none"
                 THEN Ran
                 ELSE /\ Ran <=> DiffersFromSnapshot(eh)
                      /\ i = 1 => (Ran <=> cell.c2 # cell.seenK)]_vars

\* K was unmounted while c2 held another value (A copied it into seen),
\* c2 was restored, K was mounted again in this pass, and K's first effect
\* was evaluated and did not run.
C27_Witness ==
  /\ walk = "update" /\ trace # <<>>
  /\ trace[Len(trace)].kind = "effect" /\ trace[Len(trace)].node = K
  /\ trace[Len(trace)].idx = 1 /\ ~trace[Len(trace)].ran
  /\ \E j \in 1..Len(trace) :
        trace[j].kind = "effect" /\ trace[j].node = W /\ trace[j].ran
  /\ ~hookData[A].effects[1].isFirstRun
  /\ cell.seen # cell.c2
  /\ cell.seenK = cell.c2

\* The place of the Conditional's evaluation in the pass, if it ran.
ToggledAt ==
  {j \in 1..Len(trace) :
     trace[j].kind = "effect" /\ trace[j].node = W /\ trace[j].ran}

\* C33: when an updateTree pass in which the Conditional's effect ran has
\* returned: if the effect mounted K, K's update callback and both of K's
\* effects were called in that pass, once each, right after the
\* Conditional's effect; if it unmounted K (or left K unmounted), nothing
\* of K was called in that pass.
C33_MountedVisitedSamePass ==
  (PassDone /\ ToggledAt # {}) =>
     \A j \in ToggledAt :
        IF cell.cond
          THEN /\ Len(trace) >= j + 3
               /\ SubSeq(Invoked, j + 1, j + 3) = CallbacksOf("update", K)
               /\ {m \in 1..Len(trace) : trace[m].node = K} = (j + 1)..(j + 3)
          ELSE \A m \in 1..Len(trace) : trace[m].node # K

\* K, unmounted in an earlier pass, was mounted in this one and visited.
C33_Witness ==
  /\ PassDone
  /\ \E j \in ToggledAt : ~trace[j].first
  /\ cell.cond /\ IsChildOf(K, W)
  /\ \E m \in 1..Len(trace) : trace[m].node = K /\ trace[m].kind = "update"
  /\ ~hookData[K].effects[1].isFirstRun

\* ------------------------------------------------------- the demo game
\* The tree Game() builds: the Game node, whose children are four
\* Conditional wrappers, over the gameplay fragment (Pipes and Bird), the
\* main-menu text, the game-over fragment (two texts) and the score text.
GameNode == 2
GameplayWrapper == 3
GameplayFragment == 4
BirdNode == 5
MenuWrapper == 6
MenuText == 7
OverWrapper == 8
OverFragment == 9
OverText == 10
RestartText == 11
ScoreWrapper == 12
ScoreText == 13
GameIds == 1..(FirstPipe + MaxPipes - 1)
GameNodes == 1..(FirstPipe - 1)
MaxScore == 1
\* SDL_AppIterate clamps the frame time it hands updateTree: the longest
\* frame is the time unit of the bird and the passes.
MaxDt == 1
Dts == 0..MaxDt

\* node->derived(compute, source): the new cell is named after its compute
\* closure.
\* (mutation: the effect is registered without the dependency)
derivedByUntracked(compute, source) ==
  effect([kind |-> "derived", target |-> compute, source |-> source,
          compute |-> compute], <<>>)

derivedBy(compute, source) ==
  effect([kind |-> "derived", target |-> compute, source |-> source,
          compute |-> compute], <<source>>)

\* The score Conditional's condition and the score text are arguments of
\* the same call; they are registered here in the order they are written.
GameHooks ==
  [n \in GameIds |->
     CASE n = GameNode ->
            [updateEffects |-> <<>>,
             effects |-> <<derivedBy("notGameOver", "status"),
                           derivedBy("isMainMenu", "status"),
                           derivedBy("isGameOver", "status"),
                           derivedBy("isPlaying", "status"),
                           derivedBy("scoreText", "score")>>,
             renderEffects |-> <<>>,
             eventEffects |-> <<[kind |-> "GameKeyDown"]>>]
       [] n = GameplayWrapper ->
            [NoHooks EXCEPT !.effects =
               <<Conditional(GameplayWrapper, "notGameOver", GameplayFragment)>>]
       [] n = MenuWrapper ->
            [NoHooks EXCEPT !.effects =
               <<Conditional(MenuWrapper, "isMainMenu", MenuText)>>]
       [] n = OverWrapper ->
            [NoHooks EXCEPT !.effects =
               <<Conditional(OverWrapper, "isGameOver", OverFragment)>>]
       [] n = ScoreWrapper ->
            [NoHooks EXCEPT !.effects =
               <<Conditional(ScoreWrapper, "isPlaying", ScoreText)>>]
       [] n = PipesNode ->
            [updateEffects |-> <<[kind |-> "PipesUpdate",
                                  spawnTimer |-> PIPE_SPAWN_INTERVAL]>>,
             effects |-> <<effect([kind |-> "PipesEffect",
                                   spawnTimer |-> PIPE_SPAWN_INTERVAL],
                                  <<"status">>)>>,
             renderEffects |-> <<>>,
             eventEffects |-> <<>>]
       [] n = BirdNode ->
            [updateEffects |-> <<[kind |-> "BirdUpdate"]>>,
             effects |-> <<effect([kind |-> "BirdEffect"], <<"status">>)>>,
             renderEffects |-> <<[kind |-> "draw"]>>,
             eventEffects |-> <<[kind |-> "BirdKeyDown"]>>]
       [] n \in {MenuText, OverText, RestartText, ScoreText} ->
            [NoHooks EXCEPT !.renderEffects = <<[kind |-> "draw"]>>]
       [] OTHER -> NoHooks]

GameCells ==
  LET seed == [status |-> "MainMenu", score |-> 0]
  IN [status |-> "MainMenu", score |-> 0,
      yPos |-> INITIAL_Y, yVel |-> 0, rotation |-> 0,
      activePipes |-> <<>>,
      pipeData |-> [p \in PipeIds |-> NoPipeData],
      notGameOver |-> derivedSeed([compute |-> "notGameOver"], seed),
      isMainMenu |-> derivedSeed([compute |-> "isMainMenu"], seed),
      isGameOver |-> derivedSeed([compute |-> "isGameOver"], seed),
      isPlaying |-> derivedSeed([compute |-> "isPlaying"], seed),
      scoreText |-> derivedSeed([compute |-> "scoreText"], seed)]

InitGame ==
  /\ alive = GameNodes
  /\ parent = [n \in GameIds |->
                 CASE n \in {GameplayWrapper, MenuWrapper, OverWrapper,
                             ScoreWrapper} -> GameNode
                   [] n \in {PipesNode, BirdNode} -> GameplayFragment
                   [] n \in {OverText, RestartText} -> OverFragment
                   [] OTHER -> NULL]
  /\ children = [n \in GameIds |->
                   CASE n = GameNode -> <<GameplayWrapper, MenuWrapper,
                                          OverWrapper, ScoreWrapper>>
                     [] n = GameplayFragment -> <<PipesNode, BirdNode>>
                     [] n = OverFragment -> <<OverText, RestartText>>
                     [] OTHER -> <<>>]
  /\ hookData = GameHooks
  /\ providedContextsMap = NoContexts
  /\ call = NoCall
  /\ cell = GameCells
  /\ walk = "idle"
  /\ stack = <<>>
  /\ trace = <<>>
  /\ evalSeen = [n \in GameIds |-> [k \in 1..Len(GameHooks[n].effects) |-> <<>>]]
  /\ written = {}

\* SDL_AppIterate: updateTree(as->root, dt).  The call record keeps the
\* status the pass started with.
GameUpdate ==
  /\ walk = "idle"
  /\ cell.score < MaxScore
  /\ Len(cell.activePipes) < MaxPipes
  /\ \E dt \in Dts :
       call' = [op |-> "updateTree", dt |-> dt, status |-> cell.status]
  /\ walk' = "update"
  /\ stack' = <<Enter(GameNode, Engine)>>
  /\ trace' = <<>>
  /\ UNCHANGED <<parent, children, alive, hookData, providedContextsMap, cell,
                 evalSeen, written>>

\* SDL_AppEvent: eventTree(as->root, e).
GameEvent ==
  /\ walk = "idle"
  /\ \E event \in {Flap, OtherEvent} :
       call' = [op |-> "eventTree", event |-> event, status |-> cell.status]
  /\ walk' = "event"
  /\ stack' = <<EnterAs("event", GameNode, Engine)>>
  /\ trace' = <<>>
  /\ UNCHANGED <<parent, children, alive, hookData, providedContextsMap, cell,
                 evalSeen, written>>

\* SDL_AppIterate: renderTree(as->root, as->renderer).
GameRender ==
  /\ walk = "idle"
  /\ call' = [op |-> "renderTree", status |-> cell.status]
  /\ walk' = "render"
  /\ stack' = <<EnterAs("render", GameNode, Engine)>>
  /\ trace' = <<>>
  /\ UNCHANGED <<parent, children, alive, hookData, providedContextsMap, cell,
                 evalSeen, written>>

NextGame ==
  \/ GameUpdate
  \/ GameRender
  \/ GameEvent
  \/ UpdateCallback
  \/ EvalEffect
  \/ RenderCallback
  \/ EventCallback
  \/ Descend
  \/ Return
  \/ Finish

SpecGame == InitGame /\ [][NextGame]_vars

\* A key event starts a game.
GameStarts == cell.status # "Playing" /\ cell'.status = "Playing"

\* C25: when a game starts, the active pipe list and the Pipes node's child
\* list are empty.  No step between the key event that starts a game and
\* the first run of the Pipes update logic in that game touches either
\* list, so this is what that first run finds.
C25_NoPipeSurvives ==
  [][GameStarts => cell.activePipes = <<>> /\ children[PipesNode] = <<>>]_vars

\* C26: when a game starts, the spawn timer the Pipes update logic counts
\* down stands at PIPE_SPAWN_INTERVAL.  The update logic spawns when the
\* timer, less the frame times of the passes run while Playing, is no
\* longer positive, so this is when the first pipe of the game is due.
C26_TimerResetBetweenGames ==
  [][GameStarts =>
       hookData[PipesNode].updateEffects[1].spawnTimer = PIPE_SPAWN_INTERVAL]_vars

\* What a Conditional wrapper of the game holds: its child or nothing.
Mounted(wrapper, child, condition) ==
  children[wrapper] = IF condition THEN <<child>> ELSE <<>>

\* C28: when an updateTree pass on the Game node returns, the gameplay
\* fragment is mounted iff the status the pass started with was not
\* GameOver, and the UI child mounted is the one for that status, whatever
\* Bird or Pipes made of the status during the pass.
C28_MountedReflectsStartStatus ==
  PassDone =>
    /\ Mounted(GameplayWrapper, GameplayFragment, call.status # "GameOver")
    /\ Mounted(MenuWrapper, MenuText, call.status = "MainMenu")
    /\ Mounted(OverWrapper, OverFragment, call.status = "GameOver")
    /\ Mounted(ScoreWrapper, ScoreText, call.status = "Playing")

\* A pass that started Playing and in which GameOver was raised has
\* returned: the gameplay fragment and the score text are still mounted.
C28_Witness ==
  /\ PassDone /\ call.status = "Playing" /\ cell.status = "GameOver"
  /\ children[GameplayWrapper] = <<GameplayFragment>>
  /\ children[ScoreWrapper] = <<ScoreText>>
  /\ children[OverWrapper] = <<>>

UIWrappers == {MenuWrapper, OverWrapper, ScoreWrapper}

\* C29: when an updateTree pass on the Game node returns, exactly one of
\* the three UI Conditionals has its child mounted.
C29_ExactlyOneUI ==
  PassDone => Cardinality({w \in UIWrappers : children[w] # <<>>}) = 1

\* A pass that started in GameOver has returned with the game-over texts
\* mounted and the score text unmounted again.
C29_Witness ==
  /\ PassDone /\ call.status = "GameOver"
  /\ children[OverWrapper] = <<OverFragment>>
  /\ children[ScoreWrapper] = <<>> /\ children[MenuWrapper] = <<>>
  /\ ~hookData[ScoreWrapper].effects[1].isFirstRun

\* C30: the status changes only from MainMenu to Playing and from GameOver
\* to MainMenu, in Game's handler of a flap key event, and from Playing to
\* GameOver, in the update callback of Pipes or Bird during an update pass;
\* no step of an event walk that started while Playing changes the status
\* or the score.
C30_StatusTransitions ==
  [][/\ cell'.status # cell.status =>
          \/ /\ cell.status = "MainMenu" /\ cell'.status = "Playing"
             /\ walk = "event" /\ call.event = Flap /\ Top.node = GameNode
          \/ /\ cell.status = "GameOver" /\ cell'.status = "MainMenu"
             /\ walk = "event" /\ call.event = Flap /\ Top.node = GameNode
          \/ /\ cell.status = "Playing" /\ cell'.status = "GameOver"
             /\ walk = "update" /\ Top.phase = "update"
             /\ Top.node \in {PipesNode, BirdNode}
     /\ (walk = "event" /\ call.status = "Playing") =>
          cell'.status = cell.status /\ cell'.score = cell.score]_vars

\* A flap key event dispatched while Playing, with a pipe scored and a
\* pipe active, has gone through the tree.
C30_Witness ==
  /\ walk = "event" /\ stack = <<>> /\ call.event = Flap
  /\ call.status = "Playing" /\ cell.status = "Playing"
  /\ cell.score > 0 /\ cell.activePipes # <<>>
  /\ Len(trace) = 2

\* The walk in progress has called a callback or evaluated an effect of n.
Reached(n) == \E j \in 1..Len(trace) : trace[j].node = n

BirdIsReset ==
  /\ cell.yPos = INITIAL_Y
  /\ cell.yVel = 0
  /\ cell.rotation = 0

\* C31: when an update pass that visited the Bird node has returned and the
\* status is MainMenu or GameOver, the bird's position is the initial one
\* and its velocity and rotation are 0.
C31_BirdResetWhenNotPlaying ==
  (PassDone /\ Reached(BirdNode) /\ cell.status \in {"MainMenu", "GameOver"})
     => BirdIsReset

\* This step is the call of Bird's event handler.
BirdHandles ==
  /\ walk = "event"
  /\ Len(trace') = Len(trace) + 1
  /\ trace'[Len(trace')].node = BirdNode

\* C32: Bird's event handler is called after Game's in the same dispatch;
\* at a flap key dispatched while the status was MainMenu it finds the
\* status Playing and sets the velocity to FLAP_VELOCITY; it changes the
\* velocity only when it is handed a flap key and finds the status Playing.
C32_StartingFlapLiftsBird ==
  [][BirdHandles =>
       /\ Reached(GameNode)
       /\ (call.event = Flap /\ call.status = "MainMenu") =>
            (cell.status = "Playing" /\ cell'.yVel = FLAP_VELOCITY)
       /\ cell'.yVel # cell.yVel => (call.event = Flap /\ cell.status = "Playing")
       /\ cell'.status = cell.status]_vars

\* A flap key dispatched in the main menu with the gameplay fragment
\* mounted has started a game and lifted the bird.
C32_Witness ==
  /\ walk = "event" /\ stack = <<>>
  /\ call.event = Flap /\ call.status = "MainMenu"
  /\ Reached(BirdNode)
  /\ cell.status = "Playing"
  /\ cell.yVel = FLAP_VELOCITY

\* The gameplay fragment is unmounted: it has no parent.
Detached == parent[GameplayFragment] = NULL

\* The fragment and the nodes below it, and the cells only their closures
\* hold handles to.
Hidden == {GameplayFragment, PipesNode, BirdNode} \cup PipeIds
HiddenCells == {"yPos", "yVel", "rotation", "activePipes", "pipeData"}

\* C34: while the gameplay fragment is unmounted, no step of updateTree,
\* renderTree or eventTree calls a callback of the fragment, of Pipes, of
\* Bird or of a pipe, or evaluates one of their effects, and no step changes
\* their hooks (snapshots and captured locals) or the cells only they hold.
C34_UnmountedIsInert ==
  [][Detached =>
       /\ Len(trace') = Len(trace) + 1 => trace'[Len(trace')].node \notin Hidden
       /\ \A n \in Hidden : hookData'[n] = hookData[n]
       /\ \A c \in HiddenCells : cell'[c] = cell[c]]_vars

\* A renderTree walk over the tree has returned while the fragment, mounted
\* in an earlier pass, is unmounted: it drew the game-over texts and
\* nothing of the fragment.
C34_Witness ==
  /\ walk = "render" /\ stack = <<>>
  /\ Detached
  /\ ~hookData[BirdNode].effects[1].isFirstRun
  /\ Reached(OverText)
  /\ ~Reached(BirdNode)

\* C10: every existing node whose parent pointer is non-null is contained
\* in that parent's child list, in every state reached through createNode,
\* AddChild, RemoveChild, SetChildren and the pipes' spawning and removal.
C10_ParentLinkInvariant ==
  \A n \in alive : parent[n] # NULL => IsChildOf(n, parent[n])

====
